---- MODULE Spec2Model ----
(***************************************************************************)
(* Model of the job-listing acquisition pipeline of careerboost2:          *)
(* backend/services/scrapingService.js (ScrapingService), the audit sink   *)
(* it logs to (AuditLogger.log), the Job store it persists to, and the     *)
(* callers in backend/server.js (health check, periodic continuous         *)
(* scraping, shutdown).                                                    *)
(*                                                                         *)
(* Strings are sequences of one-character strings so that toLowerCase and  *)
(* the '-' separated fingerprint are computed as the code computes them.   *)
(***************************************************************************)
EXTENDS Integers, Sequences, FiniteSets, TLC

(***************************************************************************)
(* Bounds of the model.                                                    *)
(***************************************************************************)
\* number of browser launches that may succeed
MaxLaunch == 2
\* number of cards a result page may hold
MaxCards == 1
\* number of pages that may be open at once in one browser
MaxPages == 2
\* number of close() calls (server shutdown handlers)
MaxClose == 1
\* number of continuousScraping invocations
MaxContinuous == 1
\* number of healthCheck calls
MaxHealthChecks == 1
\* number of scrapeJobs calls explored when the periodic task runs alone,
\* and when health checks and the shutdown handler run beside it
MaxRuns == 2
MaxServerRuns == 1
MaxRequests == 2

Null == 0

(***************************************************************************)
(* Strings.                                                                *)
(***************************************************************************)
\* the lower-case form of every upper-case letter
LowerCaseOf ==
  [
    A |-> "a", B |-> "b", C |-> "c", D |-> "d", E |-> "e", F |-> "f", G |-> "g",
    H |-> "h", I |-> "i", J |-> "j", K |-> "k", L |-> "l", M |-> "m", N |-> "n",
    O |-> "o", P |-> "p", Q |-> "q", R |-> "r", S |-> "s", T |-> "t", U |-> "u",
    V |-> "v", W |-> "w", X |-> "x", Y |-> "y", Z |-> "z" ]

Lower(c) == IF c \in DOMAIN LowerCaseOf THEN LowerCaseOf[c] ELSE c

toLowerCase(s) == [i \in DOMAIN s |-> Lower(s[i])]

(* `${job.title}-${job.company}-${job.location}`.toLowerCase() *)
dedupKey(job) ==
  toLowerCase(job.title \o <<"-">> \o job.company \o <<"-">> \o job.location)

RECURSIVE dedupFilter(_, _)
dedupFilter(jobsIn, seen) ==
  IF jobsIn = <<>> THEN <<>>
  ELSE LET key == dedupKey(Head(jobsIn)) IN
       IF key \in seen
         THEN dedupFilter(Tail(jobsIn), seen)
         ELSE <<Head(jobsIn)>> \o dedupFilter(Tail(jobsIn), seen \cup {key})

\* no deduplication: the batch as merged
deduplicateJobsNone(jobsIn) == jobsIn

deduplicateJobs(jobsIn) == dedupFilter(jobsIn, {})

(* Array.prototype.slice(0, n) *)
slice(s, n) == IF Len(s) <= n THEN s ELSE SubSeq(s, 1, n)

\* the share rounded down instead
floorDiv(a, b) == a \div b

(* Math.ceil(a / b) for a >= 0, b > 0 *)
ceilDiv(a, b) == (a + b - 1) \div b

(***************************************************************************)
(* Static configuration of the service.                                    *)
(***************************************************************************)
\* the sources in the order of the jobSites table instead
sitesToScrapeTableOrder == <<"indeed", "careerjet", "pnet">>

sitesToScrape == <<"indeed", "pnet", "careerjet">>

jobSitesName(site) ==
  CASE site = "indeed" -> "Indeed South Africa"
    [] site = "pnet" -> "PNet South Africa"
    [] site = "careerjet" -> "CareerJet South Africa"
    [] OTHER -> "Careers24"

\* the keyword and location lists continuousScraping walks, cut to the
\* first NumKeywords and NumLocations entries
NumKeywords == 2
NumLocations == 1
AllKeywords == <<"software developer", "data analyst", "project manager",
                 "marketing specialist">>
AllLocations == <<"Johannesburg", "Cape Town", "Durban">>
popularKeywords == SubSeq(AllKeywords, 1, NumKeywords)
locations == SubSeq(AllLocations, 1, NumLocations)
\* the limit continuousScraping passes to scrapeJobs
ContinuousLimit == 10

(***************************************************************************)
(* What a result page can show: the cards a source may list. indeed and    *)
(* pnet list the same job, written in two ways; careerjet lists another.   *)
(***************************************************************************)
CardPool ==
  { [title |-> <<"A">>, company |-> <<"b">>, location |-> <<"c">>],
    [title |-> <<"a">>, company |-> <<"B">>, location |-> <<"c">>] }

CardsOf(site) ==
  IF site = "careerjet"
    THEN { [title |-> <<"D">>, company |-> <<"b", "\t", "c">>,
            location |-> <<"c">>] }
    ELSE CardPool

RECURSIVE SeqsUpTo(_, _)
SeqsUpTo(S, n) ==
  IF n = 0 THEN {<<>>}
  ELSE LET shorter == SeqsUpTo(S, n - 1) IN
       shorter \cup {Append(q, x) : q \in {r \in shorter : Len(r) = n - 1}, x \in S}

PageContents(site) == SeqsUpTo(CardsOf(site), MaxCards)

\* line 282: a card is kept when getText found a non-empty title and a
\* non-empty company in it (an absent element and an empty text are both
\* written <<>>)
validCard(card) == card.title # <<>> /\ card.company # <<>>

SouthAfrica == <<"S", "o", "u", "t", "h", " ", "A", "f", "r", "i", "c", "a">>

(* the record page.evaluate builds for a card with a title and a company *)
rawJob(card, site) ==
  [title |-> card.title, company |-> card.company,
   location |-> IF card.location = <<>> THEN SouthAfrica ELSE card.location,
   source |-> jobSitesName(site)]

\* lines 278-280: new URL(link, config.url) raises for a relative link
\* that cannot be resolved; a card without a link has none to resolve
parsingRaises(card) == "link" \in DOMAIN card /\ card.link = "invalid"

\* the cards up to the first one whose parsing raises
RECURSIVE untilRaise(_)
untilRaise(cards) ==
  IF cards = <<>> \/ parsingRaises(Head(cards)) THEN <<>>
  ELSE <<Head(cards)>> \o untilRaise(Tail(cards))

\* page.evaluate with the try around the whole loop
evaluateAbortOnRaise(cards, site) ==
  LET kept == SelectSeq(untilRaise(cards), validCard)
  IN [i \in DOMAIN kept |-> rawJob(kept[i], site)]

\* lines 253-301: the records page.evaluate returns for the cards of a
\* page, in document order; the try of lines 258-297 drops a card whose
\* parsing raises
evaluate(cards, site) ==
  LET kept == SelectSeq(cards,
                LAMBDA card : ~parsingRaises(card) /\ validCard(card))
  IN [i \in DOMAIN kept |-> rawJob(kept[i], site)]

\* line 156: the share of the limit scrapeJobs asks every source for
siteLimit(limit) == ceilDiv(limit, Len(sitesToScrape))

\* lines 303-312: what scrapeSite returns when no browser operation failed
scrapeSite(cards, site, limit) == slice(evaluate(cards, site), limit)

VARIABLES
  \* ScrapingService fields
  browser, isInitialized, scrapingStats,
  \* the browser processes puppeteer launched: how many, which are still
  \* open, and the pages open in each
  nextBrowser, openBrowsers, openPages,
  \* the Job collection
  store,
  \* one scrapeJobs call: its position, arguments and locals
  runPc, args, siteIdx, page, jobs, allJobs, errors, queue, job, processedJobs,
  result,
  \* history of the call: the sources whose extraction started, how each
  \* extraction siteOutcome, and whether a write to the audit sink failed in it
  started, siteOutcome, sinkFailed,
  \* history of processAndStoreJobs in the call: for every job of the batch
  \* its iteration has ended for, the job and how the iteration ended
  jobLog,
  \* one continuousScraping call
  csPc, ki, li, csJobs, csErrors, csCount, runsLeft,
  \* history of continuousScraping: the pairs run and how each run siteOutcome
  runLog, outcomes,
  \* one healthCheck call
  hcPc, hcPage, hcCount,
  \* one close() call
  closePc, closing, closeCount,
  \* a call of one of the service's pure functions: the function a caller
  \* is about to call, and the name, argument and return value of the call
  \* once made
  pending, fn, input, output,
  \* the JobScraper instance the routes share: its browser field, the
  \* browsers it launched (how many, which are still open), and for every
  \* scrapeJobs call on it its position, the number of sources it has
  \* scraped and the browser its close() is closing
  scraperBrowser, scraperNext, scraperOpen, callPc, sourcesDone, callClosing

sessionVars == <<browser, isInitialized, nextBrowser, openBrowsers, openPages>>
runVars == <<runPc, args, siteIdx, page, jobs, allJobs, errors, queue, job,
             processedJobs, result, started, siteOutcome, sinkFailed, jobLog>>
csVars == <<csPc, ki, li, csJobs, csErrors, csCount, runsLeft>>
histVars == <<runLog, outcomes>>
hcVars == <<hcPc, hcPage, hcCount>>
closeVars == <<closePc, closing, closeCount>>
pureVars == <<pending, fn, input, output>>
scraperVars == <<scraperBrowser, scraperNext, scraperOpen, callPc,
                 sourcesDone, callClosing>>
otherVars == <<pureVars, scraperVars>>
vars == <<sessionVars, scrapingStats, store, runVars, csVars,
          histVars, hcVars, closeVars, pureVars, scraperVars>>

NoResult == [kind |-> "none"]
NoJob == [title |-> <<>>, company |-> <<>>, location |-> <<>>, source |-> ""]

Fresh ==
  /\ browser = Null
  /\ isInitialized = FALSE
  /\ scrapingStats = [totalJobsScraped |-> 0, lastScrapingRun |-> 0,
                      errors |-> 0, successRate |-> [num |-> 0, den |-> 1]]
  /\ nextBrowser = 1
  /\ openBrowsers = {}
  /\ openPages = [b \in 1..MaxLaunch |-> 0]
  /\ store = {}
  /\ runPc = "idle"
  /\ args = [keywords |-> "", location |-> "", limit |-> 0]
  /\ siteIdx = 0
  /\ page = Null
  /\ jobs = <<>>
  /\ allJobs = <<>>
  /\ errors = <<>>
  /\ queue = <<>>
  /\ job = NoJob
  /\ processedJobs = <<>>
  /\ result = NoResult
  /\ started = <<>>
  /\ siteOutcome = <<>>
  /\ sinkFailed = FALSE
  /\ jobLog = <<>>
  /\ csPc = "idle"
  /\ ki = 1
  /\ li = 1
  /\ csJobs = 0
  /\ csErrors = <<>>
  /\ csCount = 0
  /\ runLog = <<>>
  /\ outcomes = <<>>
  /\ hcPc = "idle"
  /\ hcPage = Null
  /\ hcCount = 0
  /\ closePc = "idle"
  /\ closing = Null
  /\ closeCount = 0
  /\ scraperBrowser = Null
  /\ scraperNext = 1
  /\ scraperOpen = {}
  /\ callPc = [c \in 1..MaxRequests |-> "idle"]
  /\ sourcesDone = [c \in 1..MaxRequests |-> 0]
  /\ callClosing = [c \in 1..MaxRequests |-> Null]

NoCall == /\ pending = "none"
          /\ fn = "none"
          /\ input = <<>>
          /\ output = <<>>

Init == Fresh /\ NoCall /\ runsLeft = MaxRuns

InitServer == Fresh /\ NoCall /\ runsLeft = MaxServerRuns

(***************************************************************************)
(* ScrapingService.initialize                                              *)
(***************************************************************************)
\* no early return: every call launches
initializeGuardNever == FALSE

\* line 88: the early return when a session is active
initializeGuard == isInitialized /\ browser # Null

\* puppeteer.launch can start a process only while the model has ids left
LaunchOutcomes == IF nextBrowser <= MaxLaunch THEN BOOLEAN ELSE {FALSE}

\* lines 95-125: the launch resolved (ok) or rejected
initializeLaunch(ok) ==
  IF ok
    THEN /\ browser' = nextBrowser
         /\ isInitialized' = TRUE
         /\ openBrowsers' = openBrowsers \cup {nextBrowser}
         /\ nextBrowser' = nextBrowser + 1
         /\ UNCHANGED openPages
    ELSE /\ isInitialized' = FALSE
         /\ UNCHANGED <<browser, nextBrowser, openBrowsers, openPages>>

(***************************************************************************)
(* AuditLogger.log: the write to the sink is inside a try whose catch      *)
(* only prints, so the promise resolves whether or not the sink failed.    *)
(***************************************************************************)
\* log without its catch: a failed write rejects the promise
AuditLoggerLogRethrow(sinkOk) == IF sinkOk THEN "resolved" ELSE "rejected"

AuditLoggerLog(sinkOk) == "resolved"

(***************************************************************************)
(* ScrapingService.scrapeJobs                                              *)
(***************************************************************************)
\* (processed / found) * 100 || 0, kept as a fraction
successRate(processed, found) ==
  IF found = 0 \/ processed = 0
    THEN [num |-> 0, den |-> 1]
    ELSE [num |-> processed * 100, den |-> found]

\* lines 175-181: statistics are updated, then the completed event is logged
finishRun(pj, aj, errs) ==
  /\ scrapingStats' =
       [totalJobsScraped |-> scrapingStats.totalJobsScraped + Len(pj),
        lastScrapingRun |-> Len(runLog),
        errors |-> Len(errs),
        successRate |-> successRate(Len(pj), Len(aj))]
  /\ runPc' = "auditCompleted"

\* an error that ends the loop: the jobs after the failed one are dropped
nextJobStopOnError(pj, how) ==
  /\ queue' = IF how = "raised" THEN <<>> ELSE Tail(queue)
  /\ processedJobs' = pj
  /\ jobLog' = Append(jobLog, [jobData |-> Head(queue), how |-> how])
  /\ IF queue' = <<>>
       THEN finishRun(pj, allJobs, errors)
       ELSE /\ runPc' = "findOne"
            /\ UNCHANGED scrapingStats

\* lines 340 and 394-396: the iteration for the first job of the queue
\* ended (how: an existing record was found, active or not, the job was
\* inserted, or an error was caught at 390-393); the loop of
\* processAndStoreJobs moves to the next job, or returns pj to scrapeJobs
nextJob(pj, how) ==
  /\ queue' = Tail(queue)
  /\ processedJobs' = pj
  /\ jobLog' = Append(jobLog, [jobData |-> Head(queue), how |-> how])
  /\ IF Tail(queue) = <<>>
       THEN finishRun(pj, allJobs, errors)
       ELSE /\ runPc' = "findOne"
            /\ UNCHANGED scrapingStats

\* line 167: the entry scrapeJobs records for a source that raised
siteError(site) == [site |-> site, error |-> "siteError.message"]

\* lines 148 and 171-173: the loop over the sources moves to the next
\* source, or the merged batch aj is deduplicated, cut to the limit and
\* handed to processAndStoreJobs
nextSite(aj, errs) ==
  IF siteIdx < Len(sitesToScrape)
    THEN /\ siteIdx' = siteIdx + 1
         /\ started' = Append(started, sitesToScrape[siteIdx + 1])
         /\ runPc' = "newPage"
         /\ UNCHANGED <<queue, processedJobs, scrapingStats>>
    ELSE LET uniqueJobs == deduplicateJobs(aj)
             q == slice(uniqueJobs, args.limit)
         IN /\ queue' = q
            /\ processedJobs' = <<>>
            /\ UNCHANGED <<siteIdx, started>>
            /\ IF q = <<>>
                 THEN finishRun(<<>>, aj, errs)
                 ELSE /\ runPc' = "findOne"
                      /\ UNCHANGED scrapingStats

\* a catch that only prints
catchSiteSilent(errs, site) == errs

\* lines 165-168: the error of a source is recorded
catchSite(errs, site) == Append(errs, siteError(site))

\* scrapeSite rethrew (307-310): its page handle and records are dropped,
\* the error is caught and the loop goes on
siteCatch ==
  LET errs == catchSite(errors, sitesToScrape[siteIdx])
  IN /\ errors' = errs
     /\ siteOutcome' = Append(siteOutcome, "raised")
     /\ jobs' = <<>>
     /\ page' = Null
     /\ nextSite(allJobs, errs)
     /\ UNCHANGED allJobs

\* lines 143-148: the try block is entered and the first source starts
enterTry ==
  /\ siteIdx' = 1
  /\ started' = <<sitesToScrape[1]>>
  /\ runPc' = "newPage"

\* line 138, first half: initialize() checks for an active session
ScrapeJobsInitialize ==
  /\ runPc = "initialize"
  /\ IF initializeGuard
       THEN enterTry
       ELSE /\ runPc' = "launch"
            /\ UNCHANGED <<siteIdx, started>>
  /\ UNCHANGED <<sessionVars, scrapingStats, store, args, page, jobs,
                 allJobs, errors, queue, job, processedJobs, result, siteOutcome,
                 sinkFailed, jobLog, csVars, histVars, hcVars, closeVars, otherVars>>

\* line 138, second half: the launch awaited by initialize() settles; a
\* rejection leaves scrapeJobs through the await outside its try
ScrapeJobsLaunch ==
  /\ runPc = "launch"
  /\ \E ok \in LaunchOutcomes :
       /\ initializeLaunch(ok)
       /\ IF ok
            THEN enterTry /\ UNCHANGED outcomes
            ELSE /\ runPc' = "raised"
                 /\ outcomes' = Append(outcomes, "raised")
                 /\ UNCHANGED <<siteIdx, started>>
  /\ UNCHANGED <<scrapingStats, store, args, page, jobs, allJobs,
                 errors, queue, job, processedJobs, result, siteOutcome, sinkFailed, jobLog,
                 csVars, runLog, hcVars, closeVars, otherVars>>

(***************************************************************************)
(* ScrapingService.scrapeSite, one action per awaited browser operation.   *)
(* A page lives in the browser it was opened in; operations on a page of   *)
(* a closed browser reject.                                                *)
(***************************************************************************)
\* what the run leaves alone while it is inside scrapeSite or the store loop
outsideRun == <<csVars, histVars, hcVars, closeVars, otherVars>>

PageOutcomes(p) == IF p \in openBrowsers THEN BOOLEAN ELSE {FALSE}

\* line 231: this.browser.newPage()
ScrapeSiteNewPage ==
  /\ runPc = "newPage"
  /\ \E ok \in (IF browser # Null /\ browser \in openBrowsers
                   /\ openPages[browser] < MaxPages
                  THEN BOOLEAN ELSE {FALSE}) :
       IF ok
         THEN /\ page' = browser
              /\ openPages' = [openPages EXCEPT ![browser] = @ + 1]
              /\ runPc' = "goto"
              /\ UNCHANGED <<siteIdx, started, queue, processedJobs,
                             scrapingStats, errors, siteOutcome, jobs, allJobs>>
         ELSE /\ siteCatch
              /\ UNCHANGED openPages
  /\ UNCHANGED <<browser, isInitialized, nextBrowser, openBrowsers, store,
                 args, job, result, sinkFailed, jobLog, outsideRun>>

\* lines 234-247: user agent, headers and page.goto with its 30 s timeout
ScrapeSiteGoto ==
  /\ runPc = "goto"
  /\ \E ok \in PageOutcomes(page) :
       IF ok
         THEN /\ runPc' = "waitForSelector"
              /\ UNCHANGED <<page, siteIdx, started, queue, processedJobs,
                             scrapingStats, errors, siteOutcome, jobs, allJobs>>
         ELSE siteCatch
  /\ UNCHANGED <<sessionVars, store, args, job, result,
                 sinkFailed, jobLog, outsideRun>>

\* line 250: page.waitForSelector with its 15 s timeout
ScrapeSiteWaitForSelector ==
  /\ runPc = "waitForSelector"
  /\ \E ok \in PageOutcomes(page) :
       IF ok
         THEN /\ runPc' = "evaluate"
              /\ UNCHANGED <<page, siteIdx, started, queue, processedJobs,
                             scrapingStats, errors, siteOutcome, jobs, allJobs>>
         ELSE siteCatch
  /\ UNCHANGED <<sessionVars, store, args, job, result,
                 sinkFailed, jobLog, outsideRun>>

\* lines 253-303: page.evaluate returns the records of the cards
ScrapeSiteEvaluate ==
  /\ runPc = "evaluate"
  /\ \E ok \in PageOutcomes(page) :
       IF ok
         THEN \E content \in PageContents(sitesToScrape[siteIdx]) :
                /\ jobs' = evaluate(content, sitesToScrape[siteIdx])
                /\ runPc' = "pageClose"
                /\ UNCHANGED <<page, siteIdx, started, queue, processedJobs,
                               scrapingStats, errors, siteOutcome, allJobs>>
         ELSE siteCatch
  /\ UNCHANGED <<sessionVars, store, args, job, result,
                 sinkFailed, jobLog, outsideRun>>

\* lines 305-312 and 152-163: page.close(), scrapeSite returns
\* jobs.slice(0, limit), scrapeJobs merges them and starts its delay
ScrapeSitePageClose ==
  /\ runPc = "pageClose"
  /\ \E ok \in PageOutcomes(page) :
       IF ok
         THEN /\ openPages' = [openPages EXCEPT ![page] = @ - 1]
              /\ page' = Null
              /\ allJobs' = allJobs \o slice(jobs, siteLimit(args.limit))
              /\ jobs' = <<>>
              /\ siteOutcome' = Append(siteOutcome, "ok")
              /\ runPc' = "delay"
              /\ UNCHANGED <<siteIdx, started, queue, processedJobs,
                             scrapingStats, errors>>
         ELSE /\ siteCatch
              /\ UNCHANGED openPages
  /\ UNCHANGED <<browser, isInitialized, nextBrowser, openBrowsers, store,
                 args, job, result, sinkFailed, jobLog, outsideRun>>

\* line 163: the delay between sources elapsed
ScrapeJobsDelay ==
  /\ runPc = "delay"
  /\ nextSite(allJobs, errors)
  /\ UNCHANGED <<sessionVars, store, args, page, jobs, allJobs,
                 errors, job, result, siteOutcome, sinkFailed, jobLog, outsideRun>>

(***************************************************************************)
(* ScrapingService.processAndStoreJobs, one action per awaited store call. *)
(***************************************************************************)
isSpace(c) == c \in {" ", "\t", "\n"}

RECURSIVE trimStart(_)
trimStart(s) ==
  IF s # <<>> /\ isSpace(Head(s)) THEN trimStart(Tail(s)) ELSE s

RECURSIVE trimEnd(_)
trimEnd(s) ==
  IF s # <<>> /\ isSpace(s[Len(s)])
    THEN trimEnd(SubSeq(s, 1, Len(s) - 1)) ELSE s

(* String.prototype.trim *)
trim(s) == trimEnd(trimStart(s))

\* lines 399-420: company.replace(/[\n\t]/g, ' ').trim()
enhanceJobData(jobData) ==
  [jobData EXCEPT !.company =
     trim([i \in DOMAIN @ |-> IF @[i] \in {"\n", "\t"} THEN " " ELSE @[i]])]

\* lines 361-383 with the schema's trim setters and isActive default
newJob(enhancedJob) ==
  [title |-> trim(enhancedJob.title),
   company |-> trim(enhancedJob.company),
   location |-> trim(enhancedJob.location),
   source |-> enhancedJob.source,
   isActive |-> TRUE]

\* no lookup before the insert
findOneNothing(jobData) == {}

\* Job.findOne({title, company, location}): the stored records it can return
findOne(jobData) ==
  {r \in store : /\ r.title = jobData.title
                 /\ r.company = jobData.company
                 /\ r.location = jobData.location}

\* a collection without the unique index
uniqueIndexAbsent(doc) == FALSE

\* the unique index on (company, title) rejects a second record
uniqueIndexViolated(doc) ==
  \E r \in store : r.company = doc.company /\ r.title = doc.title

\* lines 349-355: an existing record is put in the result only when active
keepExisting(pj, existingJob) ==
  IF existingJob.isActive THEN Append(pj, existingJob) ELSE pj

\* lines 343-383: the lookup settles; a hit ends the iteration, a miss
\* builds the new document, a rejection is caught at 390-393
ProcessFindOne ==
  /\ runPc = "findOne"
  /\ \E ok \in BOOLEAN :
       IF ~ok
         THEN nextJob(processedJobs, "raised") /\ UNCHANGED job
         ELSE IF findOne(Head(queue)) # {}
           THEN \E existingJob \in findOne(Head(queue)) :
                  nextJob(keepExisting(processedJobs, existingJob),
                          IF existingJob.isActive THEN "existing"
                                                  ELSE "inactive")
                  /\ UNCHANGED job
           ELSE /\ job' = newJob(enhanceJobData(Head(queue)))
                /\ runPc' = "save"
                /\ UNCHANGED <<queue, processedJobs, scrapingStats, jobLog>>
  /\ UNCHANGED <<sessionVars, store, args, siteIdx, page, jobs,
                 allJobs, errors, result, started, siteOutcome, sinkFailed,
                 outsideRun>>

\* line 385: job.save() settles
ProcessSave ==
  /\ runPc = "save"
  /\ \E ok \in (IF uniqueIndexViolated(job) THEN {FALSE} ELSE BOOLEAN) :
       IF ok
         THEN /\ store' = store \cup {job}
              /\ runPc' = "recalc"
              /\ UNCHANGED <<queue, processedJobs, scrapingStats, jobLog>>
         ELSE nextJob(processedJobs, "raised") /\ UNCHANGED store
  /\ UNCHANGED <<sessionVars, args, siteIdx, page, jobs, allJobs,
                 errors, job, result, started, siteOutcome, sinkFailed, outsideRun>>

\* lines 386-388: job.calculateQualityScore() saves again; the job is
\* pushed only when that settles without error
ProcessRecalculate ==
  /\ runPc = "recalc"
  /\ \E ok \in BOOLEAN :
       nextJob(IF ok THEN Append(processedJobs, job) ELSE processedJobs,
               IF ok THEN "inserted" ELSE "raised")
  /\ UNCHANGED <<sessionVars, store, args, siteIdx, page, jobs,
                 allJobs, errors, job, result, started, siteOutcome, sinkFailed,
                 outsideRun>>

\* a run that found nothing reported as failed
successResultIfJobs(pj, errs) ==
  [kind |-> "result", success |-> (Len(pj) > 0), jobsFound |-> Len(pj),
   jobs |-> pj, errors |-> errs, statistics |-> "scrapingStats"]

\* lines 196-202
successResult(pj, errs) ==
  [kind |-> "result", success |-> TRUE, jobsFound |-> Len(pj), jobs |-> pj,
   errors |-> errs, statistics |-> "scrapingStats"]

\* lines 216-222
failureResult ==
  [kind |-> "result", success |-> FALSE, jobsFound |-> 0, jobs |-> <<>>,
   errors |-> <<"error.message">>, statistics |-> "undefined"]

\* lines 181-223: the awaited AuditLogger.log settles. After the completed
\* event scrapeJobs returns its result; a rejection there is caught at 204
\* and the failed event is logged, after which the failure result is
\* returned, and a rejection of that second call leaves scrapeJobs.
ScrapeJobsAudit ==
  /\ runPc \in {"auditCompleted", "auditFailed"}
  /\ \E sinkOk \in BOOLEAN :
       /\ sinkFailed' = (sinkFailed \/ ~sinkOk)
       /\ IF AuditLoggerLog(sinkOk) = "resolved"
            THEN /\ runPc' = "returned"
                 /\ result' = IF runPc = "auditCompleted"
                                THEN successResult(processedJobs, errors)
                                ELSE failureResult
                 /\ outcomes' = Append(outcomes,
                      IF runPc = "auditCompleted" THEN "ok" ELSE "failed")
            ELSE IF runPc = "auditCompleted"
              THEN /\ runPc' = "auditFailed"
                   /\ UNCHANGED <<result, outcomes>>
              ELSE /\ runPc' = "raised"
                   /\ outcomes' = Append(outcomes, "raised")
                   /\ UNCHANGED result
  /\ UNCHANGED <<sessionVars, scrapingStats, store, args, siteIdx, page, jobs,
                 allJobs, errors, queue, job, processedJobs, started, siteOutcome,
                 jobLog, csVars, runLog, hcVars, closeVars, otherVars>>

(***************************************************************************)
(* ScrapingService.continuousScraping, started by the timer of             *)
(* CareerBoostServer.schedulePeriodicTasks.                                *)
(***************************************************************************)
\* a loop that runs the same pair again
nextPairAgain ==
  /\ csPc' = "call"
  /\ UNCHANGED <<ki, li>>

\* lines 641-642: the nested loops move to the next pair, or end
nextPair ==
  IF li < Len(locations)
    THEN /\ li' = li + 1
         /\ csPc' = "call"
         /\ UNCHANGED ki
    ELSE IF ki < Len(popularKeywords)
      THEN /\ ki' = ki + 1
           /\ li' = 1
           /\ csPc' = "call"
      ELSE /\ csPc' = "audit"
           /\ UNCHANGED <<ki, li>>

\* lines 650 and 658: the entry of the flat error list
pairError(keyword, location) == [keyword |-> keyword, location |-> location]

\* lines 611-642
ContinuousScrapingStart ==
  /\ csPc \in {"idle", "done"}
  /\ csCount < MaxContinuous
  /\ csCount' = csCount + 1
  /\ csPc' = "call"
  /\ ki' = 1
  /\ li' = 1
  /\ csJobs' = 0
  /\ csErrors' = <<>>
  /\ runLog' = <<>>
  /\ outcomes' = <<>>
  /\ UNCHANGED <<runsLeft, sessionVars, scrapingStats, store, runVars, hcVars,
                 closeVars, otherVars>>

\* line 646: scrapeJobs(keyword, location, 10) is called
ContinuousScrapingCall ==
  /\ csPc = "call"
  /\ runsLeft > 0
  /\ runsLeft' = runsLeft - 1
  /\ csPc' = "await"
  /\ runLog' = Append(runLog, <<popularKeywords[ki], locations[li]>>)
  /\ args' = [keywords |-> popularKeywords[ki], location |-> locations[li],
              limit |-> ContinuousLimit]
  /\ runPc' = "initialize"
  /\ siteIdx' = 0
  /\ page' = Null
  /\ jobs' = <<>>
  /\ allJobs' = <<>>
  /\ errors' = <<>>
  /\ queue' = <<>>
  /\ job' = NoJob
  /\ processedJobs' = <<>>
  /\ result' = NoResult
  /\ started' = <<>>
  /\ siteOutcome' = <<>>
  /\ sinkFailed' = FALSE
  /\ jobLog' = <<>>
  /\ UNCHANGED <<sessionVars, scrapingStats, store, ki, li, csJobs,
                 csErrors, csCount, outcomes, hcVars, closeVars, otherVars>>

\* lines 646-659: the awaited run settled
ContinuousScrapingResume ==
  /\ csPc = "await"
  /\ runPc \in {"returned", "raised"}
  /\ runPc' = "idle"
  /\ IF runPc = "returned"
       THEN /\ IF result.success
                 THEN /\ csJobs' = csJobs + Len(result.jobs)
                      /\ UNCHANGED csErrors
                 ELSE /\ csErrors' = Append(csErrors,
                           pairError(popularKeywords[ki], locations[li]))
                      /\ UNCHANGED csJobs
            /\ csPc' = "delay"
            /\ UNCHANGED <<ki, li>>
       ELSE /\ csErrors' = Append(csErrors,
                 pairError(popularKeywords[ki], locations[li]))
            /\ nextPair
            /\ UNCHANGED csJobs
  /\ UNCHANGED <<sessionVars, scrapingStats, store, args, siteIdx,
                 page, jobs, allJobs, errors, queue, job, processedJobs,
                 result, started, siteOutcome, sinkFailed, jobLog, csCount, runsLeft,
                 histVars, hcVars, closeVars, otherVars>>

\* line 654: the delay between runs elapsed
ContinuousScrapingDelay ==
  /\ csPc = "delay"
  /\ nextPair
  /\ UNCHANGED <<sessionVars, scrapingStats, store, runVars, csJobs,
                 csErrors, csCount, runsLeft, histVars, hcVars, closeVars, otherVars>>

\* lines 663-677: the completed event is logged and the totals returned
ContinuousScrapingAudit ==
  /\ csPc = "audit"
  /\ \E sinkOk \in BOOLEAN : AuditLoggerLog(sinkOk) \in {"resolved", "rejected"}
  /\ csPc' = "done"
  /\ UNCHANGED <<sessionVars, scrapingStats, store, runVars, ki, li, csJobs,
                 csErrors, csCount, runsLeft, histVars, hcVars, closeVars, otherVars>>

(***************************************************************************)
(* ScrapingService.healthCheck, called at start-up and by GET /api/health. *)
(***************************************************************************)
\* line 692, first half
HealthCheckCall ==
  /\ hcPc = "idle"
  /\ hcCount < MaxHealthChecks
  /\ hcCount' = hcCount + 1
  /\ hcPc' = IF initializeGuard THEN "newPage" ELSE "launch"
  /\ UNCHANGED <<sessionVars, scrapingStats, store, runVars, csVars,
                 histVars, hcPage, closeVars, otherVars>>

\* line 692, second half: a rejected launch is reported as unhealthy
HealthCheckLaunch ==
  /\ hcPc = "launch"
  /\ \E ok \in LaunchOutcomes :
       /\ initializeLaunch(ok)
       /\ hcPc' = IF ok THEN "newPage" ELSE "idle"
  /\ UNCHANGED <<scrapingStats, store, runVars, csVars, histVars,
                 hcPage, hcCount, closeVars, otherVars>>

\* line 693
HealthCheckNewPage ==
  /\ hcPc = "newPage"
  /\ \E ok \in (IF browser # Null /\ browser \in openBrowsers
                   /\ openPages[browser] < MaxPages
                  THEN BOOLEAN ELSE {FALSE}) :
       IF ok
         THEN /\ hcPage' = browser
              /\ openPages' = [openPages EXCEPT ![browser] = @ + 1]
              /\ hcPc' = "goto"
         ELSE /\ hcPc' = "idle"
              /\ UNCHANGED <<hcPage, openPages>>
  /\ UNCHANGED <<browser, isInitialized, nextBrowser, openBrowsers,
                 scrapingStats, store, runVars, csVars, histVars,
                 hcCount, closeVars, otherVars>>

\* line 694
HealthCheckGoto ==
  /\ hcPc = "goto"
  /\ \E ok \in PageOutcomes(hcPage) :
       /\ hcPc' = IF ok THEN "pageClose" ELSE "idle"
       /\ hcPage' = IF ok THEN hcPage ELSE Null
  /\ UNCHANGED <<sessionVars, scrapingStats, store, runVars, csVars,
                 histVars, hcCount, closeVars, otherVars>>

\* lines 695-708
HealthCheckPageClose ==
  /\ hcPc = "pageClose"
  /\ \E ok \in PageOutcomes(hcPage) :
       openPages' = IF ok THEN [openPages EXCEPT ![hcPage] = @ - 1]
                    ELSE openPages
  /\ hcPc' = "idle"
  /\ hcPage' = Null
  /\ UNCHANGED <<browser, isInitialized, nextBrowser, openBrowsers,
                 scrapingStats, store, runVars, csVars, histVars,
                 hcCount, closeVars, otherVars>>

(***************************************************************************)
(* ScrapingService.close, called by the shutdown handler of the server.    *)
(***************************************************************************)
\* lines 129-130: browser.close() is called on the current session
CloseCall ==
  /\ closePc = "idle"
  /\ closeCount < MaxClose
  /\ closeCount' = closeCount + 1
  /\ IF browser # Null
       THEN closePc' = "closing" /\ closing' = browser
       ELSE UNCHANGED <<closePc, closing>>
  /\ UNCHANGED <<sessionVars, scrapingStats, store, runVars, csVars,
                 histVars, hcVars, otherVars>>

\* lines 130-133: the browser process siteOutcome, the fields are reset
CloseDone ==
  /\ closePc = "closing"
  /\ openBrowsers' = openBrowsers \ {closing}
  /\ openPages' = [openPages EXCEPT ![closing] = 0]
  /\ browser' = Null
  /\ isInitialized' = FALSE
  /\ closePc' = "idle"
  /\ closing' = Null
  /\ UNCHANGED <<nextBrowser, scrapingStats, store, runVars, csVars,
                 histVars, hcVars, closeCount, otherVars>>

(***************************************************************************)
(* PATCH /:jobId/filled: a stored job is marked as filled.                 *)
(***************************************************************************)
MarkJobFilled ==
  /\ \E r \in store :
       /\ r.isActive
       /\ store' = (store \ {r}) \cup {[r EXCEPT !.isActive = FALSE]}
  /\ UNCHANGED <<sessionVars, scrapingStats, runVars, csVars,
                 histVars, hcVars, closeVars, otherVars>>

(***************************************************************************)
(* The normalization functions of ScrapingService. An absent text (null,   *)
(* undefined or '') is written <<>>.                                       *)
(***************************************************************************)
\* String.prototype.includes
includes(text, part) ==
  \E i \in 1..(Len(text) - Len(part) + 1) :
    SubSeq(text, i, i + Len(part) - 1) = part

DigitChars == <<"0", "1", "2", "3", "4", "5", "6", "7", "8", "9">>

isDigit(c) == \E d \in DOMAIN DigitChars : DigitChars[d] = c

digitValue(c) == (CHOOSE d \in DOMAIN DigitChars : DigitChars[d] = c) - 1

\* the value parseInt gives for a text that does not start with a digit
NaN == -1

RECURSIVE leadingDigits(_, _)
leadingDigits(text, acc) ==
  IF text # <<>> /\ isDigit(Head(text))
    THEN leadingDigits(Tail(text), acc * 10 + digitValue(Head(text)))
    ELSE acc

\* parseInt of a text without sign: the number its leading digits spell
parseInt(text) ==
  IF text # <<>> /\ isDigit(Head(text)) THEN leadingDigits(text, 0) ELSE NaN

\* String.prototype.replace(/,/g, '')
removeCommas(text) == SelectSeq(text, LAMBDA c : c # ",")

\* x || y for a number x: NaN and 0 are falsy
orElse(x, y) == IF x = NaN \/ x = 0 THEN y ELSE x

\* \s* from position i: the first position that holds no white space
RECURSIVE skipSpaces(_, _)
skipSpaces(text, i) ==
  IF i <= Len(text) /\ isSpace(text[i]) THEN skipSpaces(text, i + 1) ELSE i

RECURSIVE digitsAndCommasEnd(_, _)
digitsAndCommasEnd(text, i) ==
  IF i <= Len(text) /\ (isDigit(text[i]) \/ text[i] = ",")
    THEN digitsAndCommasEnd(text, i + 1) ELSE i

\* (\d+[\d,]*) at position i: the position after the group, 0 for no match
numberEnd(text, i) ==
  IF i <= Len(text) /\ isDigit(text[i])
    THEN digitsAndCommasEnd(text, i + 1) ELSE 0

\* a literal of a pattern with the i flag, at position i
literalAt(text, i, lit) ==
  /\ i + Len(lit) - 1 <= Len(text)
  /\ toLowerCase(SubSeq(text, i, i + Len(lit) - 1)) = lit

NoMatch == [matched |-> FALSE]

\* /R\s*(\d+[\d,]*)\s*-\s*R\s*(\d+[\d,]*)/i anchored at position i
rangeWithR(text, i) ==
  IF ~literalAt(text, i, <<"r">>) THEN NoMatch
  ELSE LET b1 == skipSpaces(text, i + 1)
           e1 == numberEnd(text, b1)
       IN IF e1 = 0 THEN NoMatch
          ELSE LET d == skipSpaces(text, e1) IN
            IF ~literalAt(text, d, <<"-">>) THEN NoMatch
            ELSE LET r == skipSpaces(text, d + 1) IN
              IF ~literalAt(text, r, <<"r">>) THEN NoMatch
              ELSE LET b2 == skipSpaces(text, r + 1)
                       e2 == numberEnd(text, b2)
                   IN IF e2 = 0 THEN NoMatch
                      ELSE [matched |-> TRUE,
                            g1 |-> SubSeq(text, b1, e1 - 1),
                            g2 |-> SubSeq(text, b2, e2 - 1)]

PeriodWords == <<<<"m", "o", "n", "t", "h">>, <<"y", "e", "a", "r">>, <<"a", "n", "n", "u", "m">>>>

\* /R\s*(\d+[\d,]*)\s*per\s*(month|year|annum)/i anchored at position i
amountPerPeriod(text, i) ==
  IF ~literalAt(text, i, <<"r">>) THEN NoMatch
  ELSE LET b1 == skipSpaces(text, i + 1)
           e1 == numberEnd(text, b1)
       IN IF e1 = 0 THEN NoMatch
          ELSE LET p == skipSpaces(text, e1) IN
            IF ~literalAt(text, p, <<"p", "e", "r">>) THEN NoMatch
            ELSE LET w == skipSpaces(text, p + 3)
                     words == {k \in DOMAIN PeriodWords :
                                 literalAt(text, w, PeriodWords[k])}
                 IN IF words = {} THEN NoMatch
                    ELSE LET k == CHOOSE k \in words : \A j \in words : k <= j
                         IN [matched |-> TRUE,
                             g1 |-> SubSeq(text, b1, e1 - 1),
                             g2 |-> SubSeq(text, w, w + Len(PeriodWords[k]) - 1)]

\* /(\d+[\d,]*)\s*-\s*(\d+[\d,]*)\s*ZAR/i anchored at position i
rangeWithZAR(text, i) ==
  LET e1 == numberEnd(text, i)
  IN IF e1 = 0 THEN NoMatch
     ELSE LET d == skipSpaces(text, e1) IN
       IF ~literalAt(text, d, <<"-">>) THEN NoMatch
       ELSE LET b2 == skipSpaces(text, d + 1)
                e2 == numberEnd(text, b2)
            IN IF e2 = 0 THEN NoMatch
               ELSE IF ~literalAt(text, skipSpaces(text, e2), <<"z", "a", "r">>)
                 THEN NoMatch
                 ELSE [matched |-> TRUE,
                       g1 |-> SubSeq(text, i, e1 - 1),
                       g2 |-> SubSeq(text, b2, e2 - 1)]

\* the three formats of parseSalary, in the order they are tried
anchored(format, text, i) ==
  CASE format = 1 -> rangeWithR(text, i)
    [] format = 2 -> amountPerPeriod(text, i)
    [] OTHER -> rangeWithZAR(text, i)

\* String.prototype.match: the leftmost match of the format in the text
match(text, format) ==
  LET at == {i \in 1..Len(text) : anchored(format, text, i).matched}
  IN IF at = {} THEN NoMatch
     ELSE anchored(format, text, CHOOSE i \in at : \A j \in at : i <= j)

Undisclosed == [min |-> 0, max |-> 0, isDisclosed |-> FALSE]

\* lines 446-452
salaryRecord(min, max, period) ==
  [min |-> IF min <= max THEN min ELSE max,
   max |-> IF min <= max THEN max ELSE min,
   currency |-> "ZAR", period |-> period, isDisclosed |-> TRUE]

\* lines 422-464
parseSalary(salaryText) ==
  IF salaryText = <<>> THEN Undisclosed
  ELSE LET hits == {f \in 1..3 : match(salaryText, f).matched} IN
    IF hits = {} THEN Undisclosed
    ELSE LET m == match(salaryText, CHOOSE f \in hits : \A g \in hits : f <= g)
             min == orElse(parseInt(removeCommas(m.g1)), 0)
             max == orElse(parseInt(removeCommas(m.g2)), min)
             period == IF \/ includes(toLowerCase(salaryText), <<"y", "e", "a", "r">>)
                          \/ includes(toLowerCase(salaryText), <<"a", "n", "n", "u", "m">>)
                        THEN "yearly" ELSE "monthly"
         IN salaryRecord(min, max, period)

\* lines 580-590; an absent field and an empty one are both <<>>
calculateQualityScore(jobData) ==
  LET score ==
        (IF jobData.title # <<>> /\ jobData.company # <<>> THEN 30 ELSE 0)
        + (IF jobData.description # <<>> /\ Len(jobData.description) > 100
             THEN 25 ELSE 0)
        + (IF jobData.salary # <<>> THEN 20 ELSE 0)
        + (IF jobData.skills # <<>> /\ Len(jobData.skills) > 0 THEN 15 ELSE 0)
        + (IF jobData.categories # <<>> /\ Len(jobData.categories) > 0
             THEN 10 ELSE 0)
  IN IF score <= 100 THEN score ELSE 100

\* a value inside a template literal: a description that was never set
\* (the card had no summary text) prints as undefined
interpolate(value) == IF value = <<>> THEN <<"u", "n", "d", "e", "f", "i", "n", "e", "d">> ELSE value

\* the remote test moved to the front
detectJobTypeRemoteFirst(jobData) ==
  LET text == toLowerCase(interpolate(jobData.title) \o <<" ">>
                          \o interpolate(jobData.description))
      has(word) == includes(text, word)
  IN IF (has(<<"r", "e", "m", "o", "t", "e">>)
           \/ has(<<"w", "o", "r", "k", " ", "f", "r", "o", "m", " ", "h", "o", "m", "e">>))
       THEN "remote"
     ELSE IF (has(<<"p", "a", "r", "t", "-", "t", "i", "m", "e">>)
           \/ has(<<"p", "a", "r", "t", " ", "t", "i", "m", "e">>))
       THEN "part-time"
     ELSE IF has(<<"c", "o", "n", "t", "r", "a", "c", "t">>)
       THEN "contract"
     ELSE IF (has(<<"t", "e", "m", "p", "o", "r", "a", "r", "y">>)
           \/ has(<<"t", "e", "m", "p">>))
       THEN "temporary"
     ELSE IF (has(<<"i", "n", "t", "e", "r", "n">>)
           \/ has(<<"g", "r", "a", "d", "u", "a", "t", "e">>))
       THEN "internship"
     ELSE IF has(<<"h", "y", "b", "r", "i", "d">>)
       THEN "hybrid"
     ELSE "full-time"

\* lines 466-477
detectJobType(jobData) ==
  LET text == toLowerCase(interpolate(jobData.title) \o <<" ">>
                          \o interpolate(jobData.description))
      has(word) == includes(text, word)
  IN IF (has(<<"p", "a", "r", "t", "-", "t", "i", "m", "e">>)
           \/ has(<<"p", "a", "r", "t", " ", "t", "i", "m", "e">>))
       THEN "part-time"
     ELSE IF has(<<"c", "o", "n", "t", "r", "a", "c", "t">>)
       THEN "contract"
     ELSE IF (has(<<"t", "e", "m", "p", "o", "r", "a", "r", "y">>)
           \/ has(<<"t", "e", "m", "p">>))
       THEN "temporary"
     ELSE IF (has(<<"i", "n", "t", "e", "r", "n">>)
           \/ has(<<"g", "r", "a", "d", "u", "a", "t", "e">>))
       THEN "internship"
     ELSE IF (has(<<"r", "e", "m", "o", "t", "e">>)
           \/ has(<<"w", "o", "r", "k", " ", "f", "r", "o", "m", " ", "h", "o", "m", "e">>))
       THEN "remote"
     ELSE IF has(<<"h", "y", "b", "r", "i", "d">>)
       THEN "hybrid"
     ELSE "full-time"

\* lines 479-488
detectExperienceLevel(jobData) ==
  LET text == toLowerCase(interpolate(jobData.title) \o <<" ">>
                          \o interpolate(jobData.description))
      has(word) == includes(text, word)
  IN IF (\/ has(<<"j", "u", "n", "i", "o", "r">>)
         \/ has(<<"e", "n", "t", "r", "y", " ", "l", "e", "v", "e", "l">>)
         \/ has(<<"g", "r", "a", "d", "u", "a", "t", "e">>))
       THEN "entry"
     ELSE IF (\/ has(<<"s", "e", "n", "i", "o", "r">>)
              \/ has(<<"l", "e", "a", "d">>)
              \/ has(<<"p", "r", "i", "n", "c", "i", "p", "a", "l">>)
              \/ has(<<"h", "e", "a", "d", " ", "o", "f">>))
       THEN "senior"
     ELSE IF (\/ has(<<"e", "x", "e", "c", "u", "t", "i", "v", "e">>)
              \/ has(<<"d", "i", "r", "e", "c", "t", "o", "r">>)
              \/ has(<<"v", "p">>)
              \/ has(<<"c", "-", "l", "e", "v", "e", "l">>))
       THEN "executive"
     ELSE IF (\/ has(<<"m", "i", "d">>)
              \/ has(<<"i", "n", "t", "e", "r", "m", "e", "d", "i", "a", "t", "e">>))
       THEN "mid"
     ELSE "not-specified"

\* lines 490-497
isRemoteJob(jobData) ==
  LET text == toLowerCase(interpolate(jobData.title) \o <<" ">>
                          \o interpolate(jobData.description) \o <<" ">>
                          \o interpolate(jobData.location))
      has(word) == includes(text, word)
  IN \/ has(<<"r", "e", "m", "o", "t", "e">>)
     \/ has(<<"w", "o", "r", "k", " ", "f", "r", "o", "m", " ", "h", "o", "m", "e">>)
     \/ has(<<"w", "f", "h">>)
     \/ has(<<"v", "i", "r", "t", "u", "a", "l">>)
     \/ has(<<"a", "n", "y", "w", "h", "e", "r", "e">>)

\* lines 504-512: the categories in the order of the table, each with its
\* keywords as written (the text they are looked up in is lower-cased, the
\* keywords are not)
categoryKeywords ==
  << [category |-> "IT", keywords |->
        {<<"s", "o", "f", "t", "w", "a", "r", "e">>,
         <<"d", "e", "v", "e", "l", "o", "p", "e", "r">>,
         <<"p", "r", "o", "g", "r", "a", "m", "m", "e", "r">>,
         <<"I", "T">>,
         <<"t", "e", "c", "h">>,
         <<"e", "n", "g", "i", "n", "e", "e", "r">>,
         <<"s", "y", "s", "t", "e", "m">>,
         <<"n", "e", "t", "w", "o", "r", "k">>}],
     [category |-> "Finance", keywords |->
        {<<"f", "i", "n", "a", "n", "c", "e">>,
         <<"a", "c", "c", "o", "u", "n", "t", "i", "n", "g">>,
         <<"b", "a", "n", "k">>,
         <<"f", "i", "n", "a", "n", "c", "i", "a", "l">>,
         <<"a", "u", "d", "i", "t">>,
         <<"t", "a", "x">>}],
     [category |-> "Marketing", keywords |->
        {<<"m", "a", "r", "k", "e", "t", "i", "n", "g">>,
         <<"d", "i", "g", "i", "t", "a", "l">>,
         <<"s", "o", "c", "i", "a", "l", " ", "m", "e", "d", "i", "a">>,
         <<"b", "r", "a", "n", "d">>,
         <<"a", "d", "v", "e", "r", "t", "i", "s", "i", "n", "g">>}],
     [category |-> "Sales", keywords |->
        {<<"s", "a", "l", "e", "s">>,
         <<"a", "c", "c", "o", "u", "n", "t", " ", "m", "a", "n", "a", "g", "e", "r">>,
         <<"b", "u", "s", "i", "n", "e", "s", "s", " ", "d", "e", "v", "e", "l", "o", "p", "m", "e", "n", "t">>}],
     [category |-> "Healthcare", keywords |->
        {<<"h", "e", "a", "l", "t", "h">>,
         <<"m", "e", "d", "i", "c", "a", "l">>,
         <<"n", "u", "r", "s", "e">>,
         <<"d", "o", "c", "t", "o", "r">>,
         <<"h", "o", "s", "p", "i", "t", "a", "l">>}],
     [category |-> "Education", keywords |->
        {<<"e", "d", "u", "c", "a", "t", "i", "o", "n">>,
         <<"t", "e", "a", "c", "h", "e", "r">>,
         <<"l", "e", "c", "t", "u", "r", "e", "r">>,
         <<"a", "c", "a", "d", "e", "m", "i", "c">>,
         <<"s", "c", "h", "o", "o", "l">>}],
     [category |-> "Engineering", keywords |->
        {<<"e", "n", "g", "i", "n", "e", "e", "r">>,
         <<"t", "e", "c", "h", "n", "i", "c", "a", "l">>,
         <<"m", "a", "n", "u", "f", "a", "c", "t", "u", "r", "i", "n", "g">>,
         <<"p", "r", "o", "d", "u", "c", "t", "i", "o", "n">>}] >>

\* lines 499-521
detectCategories(jobData) ==
  LET text == toLowerCase(interpolate(jobData.title) \o <<" ">>
                          \o interpolate(jobData.description))
      hit == SelectSeq(categoryKeywords,
               LAMBDA entry : \E keyword \in entry.keywords :
                                includes(text, keyword))
      categories == [i \in DOMAIN hit |-> hit[i].category]
  IN IF Len(categories) > 0 THEN categories ELSE <<"General">>

\* lines 528-535
commonSkills ==
  << <<"J", "a", "v", "a", "S", "c", "r", "i", "p", "t">>,
     <<"P", "y", "t", "h", "o", "n">>,
     <<"J", "a", "v", "a">>,
     <<"C", "#">>,
     <<"P", "H", "P">>,
     <<"S", "Q", "L">>,
     <<"R", "e", "a", "c", "t">>,
     <<"A", "n", "g", "u", "l", "a", "r">>,
     <<"V", "u", "e">>,
     <<"N", "o", "d", "e", ".", "j", "s">>,
     <<"S", "p", "r", "i", "n", "g">>,
     <<"D", "j", "a", "n", "g", "o">>,
     <<"L", "a", "r", "a", "v", "e", "l">>,
     <<"A", "W", "S">>,
     <<"A", "z", "u", "r", "e">>,
     <<"D", "o", "c", "k", "e", "r">>,
     <<"K", "u", "b", "e", "r", "n", "e", "t", "e", "s">>,
     <<"M", "a", "c", "h", "i", "n", "e", " ", "L", "e", "a", "r", "n", "i", "n", "g">>,
     <<"D", "a", "t", "a", " ", "A", "n", "a", "l", "y", "s", "i", "s">>,
     <<"P", "r", "o", "j", "e", "c", "t", " ", "M", "a", "n", "a", "g", "e", "m", "e", "n", "t">>,
     <<"A", "g", "i", "l", "e">>,
     <<"S", "c", "r", "u", "m">>,
     <<"S", "E", "O">>,
     <<"D", "i", "g", "i", "t", "a", "l", " ", "M", "a", "r", "k", "e", "t", "i", "n", "g">>,
     <<"S", "o", "c", "i", "a", "l", " ", "M", "e", "d", "i", "a">>,
     <<"C", "o", "n", "t", "e", "n", "t", " ", "W", "r", "i", "t", "i", "n", "g">>,
     <<"G", "r", "a", "p", "h", "i", "c", " ", "D", "e", "s", "i", "g", "n">>,
     <<"A", "c", "c", "o", "u", "n", "t", "i", "n", "g">>,
     <<"F", "i", "n", "a", "n", "c", "i", "a", "l", " ", "A", "n", "a", "l", "y", "s", "i", "s">>,
     <<"R", "i", "s", "k", " ", "M", "a", "n", "a", "g", "e", "m", "e", "n", "t">>,
     <<"S", "a", "l", "e", "s">>,
     <<"N", "e", "g", "o", "t", "i", "a", "t", "i", "o", "n">>,
     <<"C", "u", "s", "t", "o", "m", "e", "r", " ", "S", "e", "r", "v", "i", "c", "e">>,
     <<"C", "o", "m", "m", "u", "n", "i", "c", "a", "t", "i", "o", "n">>,
     <<"L", "e", "a", "d", "e", "r", "s", "h", "i", "p">>,
     <<"T", "e", "a", "m", "w", "o", "r", "k">>,
     <<"P", "r", "o", "b", "l", "e", "m", " ", "S", "o", "l", "v", "i", "n", "g">> >>

\* lines 523-544: the skills found, in the order of the list (the Set keeps
\* insertion order and the list has no entry twice)
extractSkills(jobData) ==
  LET text == interpolate(jobData.title) \o <<" ">>
              \o interpolate(jobData.description)
  IN SelectSeq(commonSkills,
       LAMBDA skill : includes(toLowerCase(text), toLowerCase(skill)))

\* new Date(): the reading of the clock at the call
newDate(now) == [valid |-> TRUE, time |-> now]

\* new Date(dateString) for a text of the form YYYY-MM-DD; any other text
\* of the model gives an invalid date
newDateOf(dateString) ==
  IF /\ Len(dateString) = 10
     /\ \A i \in {1, 2, 3, 4, 6, 7, 9, 10} : isDigit(dateString[i])
     /\ dateString[5] = "-" /\ dateString[8] = "-"
     /\ parseInt(SubSeq(dateString, 6, 7)) \in 1..12
     /\ parseInt(SubSeq(dateString, 9, 10)) \in 1..31
    THEN [valid |-> TRUE,
          year |-> parseInt(SubSeq(dateString, 1, 4)),
          month |-> parseInt(SubSeq(dateString, 6, 7)),
          day |-> parseInt(SubSeq(dateString, 9, 10))]
    ELSE [valid |-> FALSE]

\* lines 563-578
parseDate(dateString, now) ==
  IF dateString = <<>> THEN newDate(now)
  ELSE IF \/ includes(dateString, <<"a", "g", "o">>)
          \/ includes(dateString, <<"t", "o", "d", "a", "y">>)
          \/ includes(dateString, <<"j", "u", "s", "t">>)
    THEN newDate(now)
    ELSE LET parsed == newDateOf(dateString)
         IN IF ~parsed.valid THEN newDate(now) ELSE parsed

\* lines 366-378: the normalized fields of the document built from a record
normalize(jobData, now) ==
  [salaryRange |-> parseSalary(jobData.salary),
   jobType |-> detectJobType(jobData),
   experienceLevel |-> detectExperienceLevel(jobData),
   isRemote |-> isRemoteJob(jobData),
   categories |-> detectCategories(jobData),
   skills |-> extractSkills(jobData),
   postedDate |-> parseDate(jobData.datePosted, now)]

\* String.prototype.toUpperCase of one character
Upper(c) ==
  IF \E u \in DOMAIN LowerCaseOf : LowerCaseOf[u] = c
    THEN CHOOSE u \in DOMAIN LowerCaseOf : LowerCaseOf[u] = c
    ELSE c

\* lines 549-552
skillKeywords ==
  << <<"j", "a", "v", "a", "s", "c", "r", "i", "p", "t">>,
     <<"p", "y", "t", "h", "o", "n">>,
     <<"j", "a", "v", "a">>,
     <<"r", "e", "a", "c", "t">>,
     <<"a", "n", "g", "u", "l", "a", "r">>,
     <<"n", "o", "d", "e">>,
     <<"s", "q", "l">>,
     <<"a", "w", "s">>,
     <<"m", "a", "r", "k", "e", "t", "i", "n", "g">>,
     <<"s", "a", "l", "e", "s">>,
     <<"m", "a", "n", "a", "g", "e", "m", "e", "n", "t">>,
     <<"a", "n", "a", "l", "y", "s", "i", "s">>,
     <<"d", "e", "v", "e", "l", "o", "p", "m", "e", "n", "t">>,
     <<"d", "e", "s", "i", "g", "n">> >>

\* lines 546-561: the keywords found in the text, first letter in upper case
extractSkillsFromText(text) ==
  LET found == SelectSeq(skillKeywords,
                 LAMBDA skill : includes(toLowerCase(text), skill))
  IN [i \in DOMAIN found |-> <<Upper(Head(found[i]))>> \o Tail(found[i])]

\* lines 408-417 of enhanceJobData, for a record that carries the summary
\* of its card: the summary becomes the description, and the skills found
\* in it are set (skills stays absent, <<>>, when none is found)
enhanceSummary(enhanced) ==
  IF enhanced.summary # <<>>
    THEN [title |-> enhanced.title, company |-> enhanced.company,
          location |-> enhanced.location, salary |-> enhanced.salary,
          summary |-> enhanced.summary, datePosted |-> enhanced.datePosted,
          description |-> enhanced.summary,
          skills |-> extractSkillsFromText(enhanced.summary),
          categories |-> <<>>]
    ELSE [title |-> enhanced.title, company |-> enhanced.company,
          location |-> enhanced.location, salary |-> enhanced.salary,
          summary |-> enhanced.summary, datePosted |-> enhanced.datePosted,
          description |-> <<>>, skills |-> <<>>, categories |-> <<>>]

NoDescription == <<"N", "o", " ", "d", "e", "s", "c", "r", "i", "p", "t", "i", "o", "n", " ", "a", "v", "a", "i", "l", "a", "b", "l", "e">>

\* lines 361-383 with all the fields a quality score is computed from; the
\* schema trims title, company and description, and the lists and the
\* contact the run does not set are empty
newJobDocument(enhancedJob, now) ==
  [title |-> trim(enhancedJob.title),
   company |-> trim(enhancedJob.company),
   description |-> trim(IF enhancedJob.description # <<>>
                          THEN enhancedJob.description
                          ELSE IF enhancedJob.summary # <<>>
                            THEN enhancedJob.summary ELSE NoDescription),
   location |-> trim(enhancedJob.location),
   salaryRange |-> parseSalary(enhancedJob.salary),
   jobType |-> detectJobType(enhancedJob),
   experienceLevel |-> detectExperienceLevel(enhancedJob),
   isRemote |-> isRemoteJob(enhancedJob),
   categories |-> detectCategories(enhancedJob),
   skills |-> extractSkills(enhancedJob),
   postedDate |-> parseDate(enhancedJob.datePosted, now),
   requirements |-> <<>>, responsibilities |-> <<>>, benefits |-> <<>>,
   contact |-> [email |-> <<>>, phone |-> <<>>],
   qualityScore |-> calculateQualityScore(enhancedJob),
   isActive |-> TRUE]

\* Job.js 340-357: the score the schema method computes and sets
JobCalculateQualityScore(doc) ==
  LET score ==
        (IF doc.title # <<>> /\ doc.company # <<>> /\ doc.description # <<>>
           THEN 30 ELSE 0)
        + (IF doc.salaryRange.isDisclosed THEN 20 ELSE 0)
        + (IF Len(doc.requirements) > 0 THEN 15 ELSE 0)
        + (IF Len(doc.responsibilities) > 0 THEN 15 ELSE 0)
        + (IF Len(doc.benefits) > 0 THEN 10 ELSE 0)
        + (IF doc.contact.email # <<>> \/ doc.contact.phone # <<>>
             THEN 10 ELSE 0)
  IN [doc EXCEPT !.qualityScore = IF score <= 100 THEN score ELSE 100]

\* Job.js 550-572: the pre-save hook of a new document
preSave(doc) ==
  LET place == toLowerCase(doc.location)
      remote == \/ includes(place, <<"r", "e", "m", "o", "t", "e">>)
                \/ includes(place, <<"a", "n", "y", "w", "h", "e", "r", "e">>)
                \/ includes(place, <<"v", "i", "r", "t", "u", "a", "l">>)
  IN JobCalculateQualityScore(
       [doc EXCEPT !.isRemote = IF remote THEN TRUE ELSE @])

\* lines 358-386 for a job findOne found no record for, when both saves
\* succeed: the document as stored
persistNewJob(jobData, now) ==
  LET enhancedJob == enhanceSummary(enhanceJobData(jobData))
      job_ == newJobDocument(enhancedJob, now)
      saved == preSave(job_)
  IN JobCalculateQualityScore(saved)

\* the merged batch handed on whole
batchOfUncut(aj, limit) == deduplicateJobs(aj)

\* lines 172-173: the batch handed to processAndStoreJobs
batchOf(aj, limit) == slice(deduplicateJobs(aj), limit)

\* how the iteration of processAndStoreJobs for one job can end
Fates == {"existing", "inactive", "inserted", "raised"}

\* lines 337-397: the jobs processAndStoreJobs returns for a batch, given
\* how the iteration of each job ends: a job is pushed when an active
\* record was found for it (349-353) or when it was inserted (388)
RECURSIVE processAndStoreJobs(_, _)
processAndStoreJobs(batch, fates) ==
  IF batch = <<>> THEN <<>>
  ELSE (IF Head(fates) \in {"existing", "inserted"}
          THEN <<Head(batch)>> ELSE <<>>)
       \o processAndStoreJobs(Tail(batch), Tail(fates))

\* lines 171-202: the result of a run whose sources returned aj
scrapeJobsResult(aj, limit, fates) ==
  successResult(processAndStoreJobs(batchOf(aj, limit), fates), <<>>)

\* the periodic scraping task and the store's other writer
Next ==
  \/ ScrapeJobsInitialize
  \/ ScrapeJobsLaunch
  \/ ScrapeSiteNewPage
  \/ ScrapeSiteGoto
  \/ ScrapeSiteWaitForSelector
  \/ ScrapeSiteEvaluate
  \/ ScrapeSitePageClose
  \/ ScrapeJobsDelay
  \/ ProcessFindOne
  \/ ProcessSave
  \/ ProcessRecalculate
  \/ ScrapeJobsAudit
  \/ ContinuousScrapingStart
  \/ ContinuousScrapingCall
  \/ ContinuousScrapingResume
  \/ ContinuousScrapingDelay
  \/ ContinuousScrapingAudit
  \/ MarkJobFilled

Spec == Init /\ [][Next]_vars

\* the same with health checks and the shutdown handler beside it, explored
\* for the first MaxServerRuns runs of the periodic task
NextServer ==
  \/ ScrapeJobsInitialize
  \/ ScrapeJobsLaunch
  \/ ScrapeSiteNewPage
  \/ ScrapeSiteGoto
  \/ ScrapeSiteWaitForSelector
  \/ ScrapeSiteEvaluate
  \/ ScrapeSitePageClose
  \/ ScrapeJobsDelay
  \/ ProcessFindOne
  \/ ProcessSave
  \/ ProcessRecalculate
  \/ ScrapeJobsAudit
  \/ ContinuousScrapingStart
  \/ ContinuousScrapingCall
  \/ ContinuousScrapingResume
  \/ ContinuousScrapingDelay
  \/ MarkJobFilled
  \/ HealthCheckCall
  \/ HealthCheckLaunch
  \/ HealthCheckNewPage
  \/ HealthCheckGoto
  \/ HealthCheckPageClose
  \/ CloseCall
  \/ CloseDone

SpecServer == InitServer /\ [][NextServer]_vars

(***************************************************************************)
(* Calls of the pure functions on arguments drawn from bounded sets.       *)
(***************************************************************************)
\* length of the batches given to deduplicateJobs
MaxBatch == 3

BatchPool ==
  { [title |-> <<"A">>, company |-> <<"b">>, location |-> <<"c">>,
     source |-> "Indeed South Africa"],
    [title |-> <<"a">>, company |-> <<"B">>, location |-> <<"C">>,
     source |-> "PNet South Africa"],
    [title |-> <<"A">>, company |-> <<"b">>, location |-> <<"d">>,
     source |-> "Indeed South Africa"],
    [title |-> <<"D">>, company |-> <<"b">>, location |-> <<"c">>,
     source |-> "Indeed South Africa"],
    [title |-> <<"A", "-", "b">>, company |-> <<"c">>, location |-> <<"d">>,
     source |-> "Indeed South Africa"],
    [title |-> <<"A">>, company |-> <<"b", "-", "c">>, location |-> <<"d">>,
     source |-> "PNet South Africa"] }

\* length of the pages given to scrapeSite and the largest run limit
MaxPageCards == 3
MaxLimit == 4

\* cards of a result page: two complete ones, one without a title element,
\* one without a company element and without a location
PageCardPool ==
  { [title |-> <<"A">>, company |-> <<"b">>, location |-> <<"c">>],
    [title |-> <<"D">>, company |-> <<"b">>, location |-> <<>>],
    [title |-> <<>>, company |-> <<"b">>, location |-> <<"c">>],
    [title |-> <<"A">>, company |-> <<>>, location |-> <<"c">>],
    [title |-> <<"E">>, company |-> <<"b">>, location |-> <<"c">>,
     link |-> "invalid"] }

\* a source of a run with a limit, and the page the source shows
ScrapeSiteInputs ==
  [cards : SeqsUpTo(PageCardPool, MaxPageCards),
   site : {"pnet"},
   limit : 1..MaxLimit]

\* amounts as a card writes them, with the number each one spells
Amounts ==
  { [text |-> <<"0">>, value |-> 0],
    [text |-> <<"7">>, value |-> 7],
    [text |-> <<"2", "0">>, value |-> 20],
    [text |-> <<"1", ",", "5", "0", "0">>, value |-> 1500] }

\* salary texts: ranges in the two range formats with operands a and b,
\* single amounts per period, and texts in none of the formats
SalaryInputs ==
  {[text |-> <<"R">> \o sp \o x.text \o dash \o <<"R">> \o sp \o y.text,
    shape |-> "range", a |-> x.value, b |-> y.value] :
     x \in Amounts, y \in Amounts, sp \in {<<>>, <<" ">>},
     dash \in {<<"-">>, <<" ", "-", " ">>}}
  \cup
  {[text |-> x.text \o dash \o y.text \o zar,
    shape |-> "range", a |-> x.value, b |-> y.value] :
     x \in Amounts, y \in Amounts, dash \in {<<"-">>, <<" ", "-", " ">>},
     zar \in {<<" ", "Z", "A", "R">>, <<"z", "a", "r">>}}
  \cup
  {[text |-> <<"R">> \o x.text \o per, shape |-> "single",
    a |-> x.value, b |-> x.value] :
     x \in Amounts, per \in {<<" ", "p", "e", "r", " ", "m", "o", "n", "t", "h">>, <<" ", "P", "e", "r", " ", "A", "n", "n", "u", "m">>}}
  \cup
  {[text |-> t, shape |-> "none", a |-> 0, b |-> 0] :
     t \in {<<>>, <<"N", "e", "g", "o", "t", "i", "a", "b", "l", "e">>, <<"R", " ", "2", "0">>, <<"7", " ", "-", " ", "2", "0">>, <<"R", " ", "7", " ", "t", "o", " ", "R", " ", "2", "0">>}}

\* a text of n characters
textOfLength(n) == [i \in 1..n |-> "x"]

\* records to score: with and without title and company, descriptions of
\* 0, 100, 101 and 150 characters, no salary text, a range and a text in
\* no salary format, up to two skills, up to one category
ScoreInputs ==
  [title : {<<>>, <<"A">>},
   company : {<<>>, <<"b">>},
   description : {textOfLength(n) : n \in {0, 100, 101, 150}},
   salary : {<<>>, <<"R", "7", "-", "R", "2", "0">>, <<"N", "e", "g", "o", "t", "i", "a", "b", "l", "e">>},
   skills : {<<>>, <<"SQL">>, <<"SQL", "Java">>},
   categories : {<<>>, <<"IT">>}]

\* number of words in a title
MaxWords == 2

\* words of titles: the job-type keywords as a card writes them, and three
\* words that are no keyword
TitleWords ==
  { <<"P", "a", "r", "t", "-", "T", "i", "m", "e">>,
    <<"P", "a", "r", "t", " ", "t", "i", "m", "e">>,
    <<"C", "o", "n", "t", "r", "a", "c", "t">>,
    <<"T", "e", "m", "p", "o", "r", "a", "r", "y">>,
    <<"T", "e", "m", "p">>,
    <<"I", "n", "t", "e", "r", "n">>,
    <<"G", "r", "a", "d", "u", "a", "t", "e">>,
    <<"R", "e", "m", "o", "t", "e">>,
    <<"W", "o", "r", "k", " ", "F", "r", "o", "m", " ", "H", "o", "m", "e">>,
    <<"H", "y", "b", "r", "i", "d">>,
    <<"A", "c", "c", "o", "u", "n", "t", "a", "n", "t">>,
    <<"C", "o", "u", "n", "t", "e", "r", "p", "a", "r", "t">>,
    <<"E", "n", "g", "i", "n", "e", "e", "r">> }

RECURSIVE joinWords(_)
joinWords(ws) ==
  IF ws = <<>> THEN <<>>
  ELSE IF Len(ws) = 1 THEN ws[1]
  ELSE ws[1] \o <<" ">> \o joinWords(Tail(ws))

Titles == {joinWords(ws) : ws \in SeqsUpTo(TitleWords, MaxWords) \ {<<>>}}

\* raw records as enhanceJobData leaves them: description is the summary
\* of the card, absent when the card has none
TypeInputs ==
  [title : Titles,
   description : {<<>>, <<"H", "y", "b", "r", "i", "d", " ", "r", "o", "l", "e">>, <<"6", " ", "m", "o", "n", "t", "h", " ", "c", "o", "n", "t", "r", "a", "c", "t">>, <<"t", "i", "m", "e", " ", "a", "n", "d", " ", "a", " ", "h", "a", "l", "f">>}]

\* readings of the clock, and the number of times one record is normalized
MaxClock == 2
MaxApplications == 2

\* raw records as scrapeSite and enhanceJobData leave them
NormalizerInputs ==
  [title : {<<"S", "e", "n", "i", "o", "r", " ", "S", "o", "f", "t", "w", "a", "r", "e", " ", "D", "e", "v", "e", "l", "o", "p", "e", "r">>, <<"G", "r", "a", "d", "u", "a", "t", "e", " ", "A", "c", "c", "o", "u", "n", "t", "a", "n", "t">>,
            <<"R", "e", "m", "o", "t", "e", " ", "S", "a", "l", "e", "s", " ", "D", "i", "r", "e", "c", "t", "o", "r">>},
   description : {<<>>, <<"P", "y", "t", "h", "o", "n", " ", "a", "n", "d", " ", "S", "Q", "L", ",", " ", "w", "o", "r", "k", " ", "f", "r", "o", "m", " ", "h", "o", "m", "e">>},
   location : {SouthAfrica, <<"A", "n", "y", "w", "h", "e", "r", "e">>},
   salary : {<<>>, <<"R", " ", "2", "0", ",", "0", "0", "0", " ", "-", " ", "R", " ", "7">>, <<"M", "a", "r", "k", "e", "t", " ", "r", "e", "l", "a", "t", "e", "d">>},
   datePosted : {<<"2", "0", "2", "4", "-", "0", "1", "-", "1", "5">>, <<"2", " ", "d", "a", "y", "s", " ", "a", "g", "o">>,
                 <<"J", "u", "s", "t", " ", "p", "o", "s", "t", "e", "d">>, <<"Y", "e", "s", "t", "e", "r", "d", "a", "y">>}]

\* raw records with the summary and the salary text of their card: no
\* summary, a short one and one of more than 100 characters
PersistInputs ==
  [title : {<<"G", "r", "a", "d", "u", "a", "t", "e", " ", "A", "c", "c", "o", "u", "n", "t", "a", "n", "t">>},
   company : {<<"b">>},
   location : {SouthAfrica, <<"R", "e", "m", "o", "t", "e">>},
   salary : {<<>>, <<"R", "7", "-", "R", "2", "0">>, <<"N", "e", "g", "o", "t", "i", "a", "b", "l", "e">>},
   summary : {<<>>, <<"P", "y", "t", "h", "o", "n", " ", "a", "n", "d", " ", "S", "Q", "L">>,
              <<"S", "a", "l", "e", "s", " ", "m", "a", "n", "a", "g", "e", "m", "e", "n", "t", " ">> \o textOfLength(100)},
   datePosted : {<<"2", "0", "2", "4", "-", "0", "1", "-", "1", "5">>}]

\* the merged records of a run, its limit, and how each of its jobs ends
ResultPool ==
  { [title |-> <<"A">>, company |-> <<"b">>, location |-> <<"c">>,
     source |-> "Indeed South Africa"],
    [title |-> <<"a">>, company |-> <<"B">>, location |-> <<"C">>,
     source |-> "PNet South Africa"],
    [title |-> <<"D">>, company |-> <<"b">>, location |-> <<"c">>,
     source |-> "Indeed South Africa"],
    [title |-> <<"E">>, company |-> <<"b">>, location |-> <<"c">>,
     source |-> "CareerJet South Africa"] }

ResultInputs ==
  [allJobs : SeqsUpTo(ResultPool, MaxBatch),
   limit : 1..MaxLimit,
   fates : [1..MaxBatch -> Fates]]

InitPure ==
  /\ Fresh
  /\ runsLeft = 0
  /\ fn = "none"
  /\ output = <<>>
  /\ \/ pending = "deduplicateJobs" /\ input \in SeqsUpTo(BatchPool, MaxBatch)
     \/ pending = "scrapeSite" /\ input \in ScrapeSiteInputs
     \/ pending = "parseSalary" /\ input \in SalaryInputs
     \/ pending = "calculateQualityScore" /\ input \in ScoreInputs
     \/ pending = "detectJobType" /\ input \in TypeInputs
     \/ pending = "normalize" /\ input \in NormalizerInputs
     \/ pending = "persistNewJob" /\ input \in PersistInputs
     \/ pending = "scrapeJobsResult" /\ input \in ResultInputs

\* scrapingService.js 596-604 (jobScraper.js 388-396 is the same code)
CallDeduplicateJobs ==
  /\ fn = "none"
  /\ pending = "deduplicateJobs"
  /\ fn' = "deduplicateJobs"
  /\ output' = deduplicateJobs(input)
  /\ UNCHANGED <<pending, input, sessionVars, scrapingStats, store, runVars, csVars,
                 histVars, hcVars, closeVars, scraperVars>>

\* lines 152-157: scrapeJobs calls scrapeSite for one source of the list
CallScrapeSite ==
  /\ fn = "none"
  /\ pending = "scrapeSite"
  /\ fn' = "scrapeSite"
  /\ output' = scrapeSite(input.cards, input.site, siteLimit(input.limit))
  /\ UNCHANGED <<pending, input, sessionVars, scrapingStats, store, runVars,
                 csVars, histVars, hcVars, closeVars, scraperVars>>

\* line 366: parseSalary(enhancedJob.salary)
CallParseSalary ==
  /\ fn = "none"
  /\ pending = "parseSalary"
  /\ fn' = "parseSalary"
  /\ output' = parseSalary(input.text)
  /\ UNCHANGED <<pending, input, sessionVars, scrapingStats, store, runVars,
                 csVars, histVars, hcVars, closeVars, scraperVars>>

\* line 380: calculateQualityScore(enhancedJob)
CallCalculateQualityScore ==
  /\ fn = "none"
  /\ pending = "calculateQualityScore"
  /\ fn' = "calculateQualityScore"
  /\ output' = calculateQualityScore(input)
  /\ UNCHANGED <<pending, input, sessionVars, scrapingStats, store, runVars,
                 csVars, histVars, hcVars, closeVars, scraperVars>>

\* line 367: detectJobType(enhancedJob)
CallDetectJobType ==
  /\ fn = "none"
  /\ pending = "detectJobType"
  /\ fn' = "detectJobType"
  /\ output' = detectJobType(input)
  /\ UNCHANGED <<pending, input, sessionVars, scrapingStats, store, runVars,
                 csVars, histVars, hcVars, closeVars, scraperVars>>

\* the time of the latest application, 1 before the first
lastReading == IF output = <<>> THEN 1 ELSE output[Len(output)].at

\* lines 366-378 applied to the same record once more: the clock has not
\* gone back since the application before
CallNormalize ==
  /\ pending = "normalize"
  /\ fn \in {"none", "normalize"}
  /\ Len(output) < MaxApplications
  /\ fn' = "normalize"
  /\ \E now \in lastReading..MaxClock :
       output' = Append(output, [at |-> now, record |-> normalize(input, now)])
  /\ UNCHANGED <<pending, input, sessionVars, scrapingStats, store, runVars,
                 csVars, histVars, hcVars, closeVars, scraperVars>>

\* lines 358-386: one job of the batch is built, saved and rescored
CallPersistNewJob ==
  /\ fn = "none"
  /\ pending = "persistNewJob"
  /\ fn' = "persistNewJob"
  /\ \E now \in 1..MaxClock : output' = persistNewJob(input, now)
  /\ UNCHANGED <<pending, input, sessionVars, scrapingStats, store, runVars,
                 csVars, histVars, hcVars, closeVars, scraperVars>>

\* lines 171-202: a run deduplicates, cuts, processes and returns
CallScrapeJobsResult ==
  /\ fn = "none"
  /\ pending = "scrapeJobsResult"
  /\ fn' = "scrapeJobsResult"
  /\ output' = scrapeJobsResult(input.allJobs, input.limit, input.fates)
  /\ UNCHANGED <<pending, input, sessionVars, scrapingStats, store, runVars,
                 csVars, histVars, hcVars, closeVars, scraperVars>>

NextPure ==
  \/ CallDeduplicateJobs
  \/ CallScrapeSite
  \/ CallParseSalary
  \/ CallCalculateQualityScore
  \/ CallDetectJobType
  \/ CallNormalize
  \/ CallPersistNewJob
  \/ CallScrapeJobsResult

SpecPure == InitPure /\ [][NextPure]_vars

(***************************************************************************)
(* ai_services/jobScraper.js: the JobScraper instance of routes/payments.js *)
(* (line 240), whose scrapeJobs every POST /scrape-for-user request calls   *)
(* (line 257); requests overlap at every await.                             *)
(***************************************************************************)
serviceVars == <<sessionVars, scrapingStats, store, runVars, csVars,
                 histVars, hcVars, closeVars, pureVars>>

\* the sources of JobScraper.scrapeJobs (lines 149-155)
scraperSources == <<"indeed", "pnet", "careerjet">>

\* payments.js 257: a request calls jobScraper.scrapeJobs
JobScraperScrapeJobs(c) ==
  /\ callPc[c] = "idle"
  /\ callPc' = [callPc EXCEPT ![c] = "initialize"]
  /\ UNCHANGED <<scraperBrowser, scraperNext, scraperOpen, sourcesDone,
                 callClosing, serviceVars>>

\* lines 141 and 117: initialize() tests this.browser
JobScraperInitialize(c) ==
  /\ callPc[c] = "initialize"
  /\ callPc' = [callPc EXCEPT ![c] = IF scraperBrowser = Null
                                       THEN "launch" ELSE "source"]
  /\ UNCHANGED <<scraperBrowser, scraperNext, scraperOpen, sourcesDone,
                 callClosing, serviceVars>>

\* lines 118-129: puppeteer.launch settles; its browser is assigned to
\* this.browser, or the rejection leaves scrapeJobs (line 141 is outside
\* the try)
JobScraperLaunch(c) ==
  /\ callPc[c] = "launch"
  /\ \E ok \in BOOLEAN :
       IF ok
         THEN /\ scraperBrowser' = scraperNext
              /\ scraperOpen' = scraperOpen \cup {scraperNext}
              /\ scraperNext' = scraperNext + 1
              /\ callPc' = [callPc EXCEPT ![c] = "source"]
         ELSE /\ callPc' = [callPc EXCEPT ![c] = "raised"]
              /\ UNCHANGED <<scraperBrowser, scraperOpen, scraperNext>>
  /\ UNCHANGED <<sourcesDone, callClosing, serviceVars>>

\* lines 149-155: scrapeIndeed, scrapePnet or scrapeCareerJet ran on
\* this.browser and returned its records; every error in it, also the one
\* of a browser that is null or closed, is caught inside (241-243)
JobScraperSource(c) ==
  /\ callPc[c] = "source"
  /\ sourcesDone' = [sourcesDone EXCEPT ![c] = @ + 1]
  /\ callPc' = [callPc EXCEPT ![c] = IF sourcesDone[c] + 1 = Len(scraperSources)
                                       THEN "close" ELSE "source"]
  /\ UNCHANGED <<scraperBrowser, scraperNext, scraperOpen, callClosing,
                 serviceVars>>

\* lines 162-164 and 134-135: the finally block calls close(), which calls
\* close() of the browser in this.browser, if there is one
JobScraperClose(c) ==
  /\ callPc[c] = "close"
  /\ IF scraperBrowser # Null
       THEN /\ callClosing' = [callClosing EXCEPT ![c] = scraperBrowser]
            /\ callPc' = [callPc EXCEPT ![c] = "closing"]
       ELSE /\ callPc' = [callPc EXCEPT ![c] = "returned"]
            /\ UNCHANGED callClosing
  /\ UNCHANGED <<scraperBrowser, scraperNext, scraperOpen, sourcesDone,
                 serviceVars>>

\* lines 135-136 and 166: the browser has closed, this.browser is set to
\* null and scrapeJobs returns
JobScraperCloseDone(c) ==
  /\ callPc[c] = "closing"
  /\ scraperOpen' = scraperOpen \ {callClosing[c]}
  /\ scraperBrowser' = Null
  /\ callClosing' = [callClosing EXCEPT ![c] = Null]
  /\ callPc' = [callPc EXCEPT ![c] = "returned"]
  /\ UNCHANGED <<scraperNext, sourcesDone, serviceVars>>

NextScraper ==
  \/ \E c \in 1..MaxRequests : JobScraperScrapeJobs(c)
  \/ \E c \in 1..MaxRequests : JobScraperInitialize(c)
  \/ \E c \in 1..MaxRequests : JobScraperLaunch(c)
  \/ \E c \in 1..MaxRequests : JobScraperSource(c)
  \/ \E c \in 1..MaxRequests : JobScraperClose(c)
  \/ \E c \in 1..MaxRequests : JobScraperCloseDone(c)

InitScraper == Fresh /\ NoCall /\ runsLeft = 0

SpecScraper == InitScraper /\ [][NextScraper]_vars

(***************************************************************************)
(* Properties.                                                             *)
(***************************************************************************)
raisedSites == {i \in DOMAIN siteOutcome : siteOutcome[i] = "raised"}

succeededNames ==
  {jobSitesName(sitesToScrape[i]) :
     i \in {j \in DOMAIN siteOutcome : siteOutcome[j] = "ok"}}

sameNaturalKey(r, q) ==
  r.title = q.title /\ r.company = q.company /\ r.location = q.location

\* the result record r was returned for the scraped record raw: it is the
\* stored record with raw's natural key, or the document built from raw
comesFrom(r, raw) ==
  sameNaturalKey(r, raw) \/ sameNaturalKey(r, newJob(enhanceJobData(raw)))

\* C1: a run in which exactly one source raised and the others succeeded
\* returns success:true with exactly one errors entry, naming that source,
\* and only jobs scraped from the sources that succeeded; and a run never
\* returns before every source of the list has been attempted.
C1_PartialFailure ==
  /\ runPc = "returned" => Len(siteOutcome) = 3
  /\ (runPc = "returned" /\ Cardinality(raisedSites) = 1) =>
       /\ result.success = TRUE
       /\ Len(result.errors) = 1
       /\ \A i \in raisedSites : result.errors[1].site = sitesToScrape[i]
       /\ \A k \in DOMAIN result.jobs :
            \E j \in DOMAIN allJobs :
              /\ comesFrom(result.jobs[k], allJobs[j])
              /\ allJobs[j].source \in succeededNames

C1_Witness ==
  /\ runPc = "returned"
  /\ siteOutcome = <<"raised", "ok", "ok">>
  /\ Len(result.jobs) >= 1
  /\ result.errors[1].site = "indeed"

C3_AlwaysReturnsResult ==
  /\ runPc # "raised"
  /\ (runPc = "returned" /\ siteOutcome = <<>>) =>
       (~result.success /\ result.jobsFound = 0 /\ result.jobs = <<>>)

\* C4: a failed write to the audit sink does not fail the run: the run
\* returns success:true with the jobs it processed.
C4_SinkFailureHarmless ==
  sinkFailed =>
    /\ runPc \in {"returned", "idle"}
    /\ result.kind = "result"
    /\ result.success = TRUE
    /\ result.jobs = processedJobs
    /\ result.jobsFound = Len(processedJobs)

C4_Witness ==
  /\ sinkFailed
  /\ runPc = "returned"
  /\ Len(result.jobs) >= 1

sameTriple(x, y) ==
  /\ toLowerCase(x.title) = toLowerCase(y.title)
  /\ toLowerCase(x.company) = toLowerCase(y.company)
  /\ toLowerCase(x.location) = toLowerCase(y.location)

RECURSIVE firstPerTriple(_, _)
firstPerTriple(batch, i) ==
  IF i > Len(batch) THEN <<>>
  ELSE (IF \E j \in 1..(i - 1) : sameTriple(batch[j], batch[i])
          THEN <<>> ELSE <<batch[i]>>) \o firstPerTriple(batch, i + 1)

\* C5: deduplicateJobs returns the input with, for every case-insensitive
\* (title, company, location) triple, exactly its first record kept and
\* the later ones removed.
C5_KeepsFirstPerTriple ==
  fn = "deduplicateJobs" => output = firstPerTriple(input, 1)

activeMatches(jobData) ==
  {r \in store : r.isActive /\ sameNaturalKey(r, jobData)}

\* C6: when the lookup step of processAndStoreJobs runs for a job whose
\* natural key an active stored record has, nothing is inserted (the store
\* is unchanged and no save is started) and the only record that can be
\* added to the result is that stored record.
C6_ExistingActiveReturned ==
  [][(/\ runPc = "findOne"
      /\ activeMatches(Head(queue)) # {}
      /\ (runPc' # runPc \/ queue' # queue))
     => /\ store' = store
        /\ runPc' # "save"
        /\ \/ processedJobs' = processedJobs
           \/ \E e \in activeMatches(Head(queue)) :
                processedJobs' = Append(processedJobs, e)]_vars

\* a run returned jobs without building any new document: all of them are
\* records the store already held
C6_Witness ==
  /\ runPc = "returned"
  /\ job = NoJob
  /\ Len(result.jobs) >= 1
  /\ \A k \in DOMAIN result.jobs : result.jobs[k] \in store

\* C7: a run whose session launched and whose sources all raised returns
\* success:true, no jobs and one errors entry per source, in list order.
C7_AllSourcesFailed ==
  (runPc = "returned" /\ siteOutcome = <<"raised", "raised", "raised">>) =>
    /\ result.success = TRUE
    /\ result.jobs = <<>>
    /\ result.jobsFound = 0
    /\ Len(result.errors) = 3
    /\ \A i \in 1..3 : result.errors[i].site = sitesToScrape[i]

C7_Witness ==
  /\ runPc = "returned"
  /\ siteOutcome = <<"raised", "raised", "raised">>
  /\ result.success = TRUE

extractionInProgress ==
  runPc \in {"newPage", "goto", "waitForSelector", "evaluate", "pageClose"}

\* C8: the extractions of a run start in the order indeed, pnet, careerjet,
\* and one starts only after all earlier ones have returned or raised: at
\* most one is in progress.
C8_SourcesInOrder ==
  /\ Len(started) <= 3
  /\ started = SubSeq(<<"indeed", "pnet", "careerjet">>, 1, Len(started))
  /\ Len(started) - Len(siteOutcome) = IF extractionInProgress THEN 1 ELSE 0

C8_Witness ==
  /\ runPc = "newPage"
  /\ started = <<"indeed", "pnet", "careerjet">>
  /\ siteOutcome = <<"ok", "raised">>

\* C9: at most one launched browser session is open at any time.
C9_SingleSession == Cardinality(openBrowsers) <= 1

pairsInOrder ==
  [n \in 1..(Len(popularKeywords) * Len(locations)) |->
     <<popularKeywords[((n - 1) \div Len(locations)) + 1],
       locations[((n - 1) % Len(locations)) + 1]>>]

RECURSIVE failedPairs(_)
failedPairs(n) ==
  IF n = 0 THEN <<>>
  ELSE failedPairs(n - 1) \o
       (IF outcomes[n] = "ok" THEN <<>>
        ELSE <<[keyword |-> runLog[n][1], location |-> runLog[n][2]]>>)

runInProgress == runPc \notin {"idle", "returned", "raised"}

\* C10: continuousScraping runs the pairs in list order, each once, starts
\* a run only when the previous one has returned or raised, and its error
\* list holds exactly one entry for every run that did not return
\* success:true.
C10_OneRunPerPair ==
  /\ Len(runLog) <= Len(pairsInOrder)
  /\ runLog = SubSeq(pairsInOrder, 1, Len(runLog))
  /\ csPc = "done" => runLog = pairsInOrder
  /\ Len(runLog) - Len(outcomes) = IF runInProgress THEN 1 ELSE 0
  /\ runInProgress => csPc = "await"
  /\ csPc \in {"call", "delay", "audit", "done"} =>
       csErrors = failedPairs(Len(runLog))
  /\ (csPc = "await" /\ runLog # <<>>) =>
       csErrors = failedPairs(Len(runLog) - 1)

C10_Witness ==
  /\ csPc = "done"
  /\ outcomes = <<"raised", "ok">>
  /\ Len(csErrors) = 1
  /\ csErrors[1].keyword = "software developer"

\* the cards of a page that can be read and have both a title and a
\* company, in page order
cardsWithTitleAndCompany(cards) ==
  LET has(card) == /\ card.title # <<>> /\ card.company # <<>>
                   /\ ("link" \in DOMAIN card => card.link # "invalid")
  IN SelectSeq(cards, has)

\* the least k with k * n >= L
shareOf(L, n) == CHOOSE k \in 0..L : k * n >= L /\ (k - 1) * n < L

\* C11: for a run with limit L over the 3 sources, scrapeSite returns the
\* first ceil(L / 3) cards of the page that have a title and a company, in
\* document order, when the page has more of them, and all of them
\* otherwise.
C11_ShareOfLimit ==
  fn = "scrapeSite" =>
    LET share == shareOf(input.limit, 3)
        good == cardsWithTitleAndCompany(input.cards)
        n == IF Len(good) > share THEN share ELSE Len(good)
    IN /\ Len(output) = n
       /\ \A i \in 1..n : /\ output[i].title = good[i].title
                           /\ output[i].company = good[i].company

\* a page with three complete cards, cut to the share 2 of limit 4
C11_Witness ==
  /\ fn = "scrapeSite"
  /\ input.limit = 4
  /\ Len(cardsWithTitleAndCompany(input.cards)) = 3
  /\ Len(output) = 2

\* C12: when a run has returned its success result, statistics.successRate
\* is the fraction processedCount / foundCount of the jobs in the result
\* over the raw records merged from the sources, and 0 when no record was
\* found.
C12_SuccessRateIsRatio ==
  (runPc = "returned" /\ result.success) =>
    LET rate == scrapingStats.successRate
    IN IF Len(allJobs) = 0
         THEN rate.num = 0
         ELSE rate.num * Len(allJobs) = Len(result.jobs) * rate.den

\* C13: calculateQualityScore returns 30 for title and company both
\* present, plus 25 for a description longer than 100 characters, plus 20
\* exactly when the salary is disclosed (the salaryRange parsed from the
\* record has isDisclosed), plus 15 for at least one skill, plus 10 for at
\* least one category; the result is in 0..100, and 100 when all five hold.
C13_QualityScoreWeights ==
  fn = "calculateQualityScore" =>
    LET named == input.title # <<>> /\ input.company # <<>>
        described == Len(input.description) > 100
        disclosed == parseSalary(input.salary).isDisclosed
        skilled == Len(input.skills) >= 1
        categorised == Len(input.categories) >= 1
    IN /\ output = (IF named THEN 30 ELSE 0) + (IF described THEN 25 ELSE 0)
                    + (IF disclosed THEN 20 ELSE 0)
                    + (IF skilled THEN 15 ELSE 0)
                    + (IF categorised THEN 10 ELSE 0)
       /\ output \in 0..100
       /\ (named /\ described /\ disclosed /\ skilled /\ categorised)
            => output = 100

\* C14: for a salary text in a range format with operands a and b,
\* parseSalary returns min = min(a, b), max = max(a, b) and isDisclosed
\* true; min <= max whenever isDisclosed; a text in no format, or an absent
\* text, gives min 0, max 0 and isDisclosed false.
C14_ParseSalaryRange ==
  fn = "parseSalary" =>
    /\ input.shape = "range" =>
          /\ output.isDisclosed
          /\ output.min = (IF input.a <= input.b THEN input.a ELSE input.b)
          /\ output.max = (IF input.a <= input.b THEN input.b ELSE input.a)
    /\ output.isDisclosed => output.min <= output.max
    /\ input.shape = "none" =>
          (output.min = 0 /\ output.max = 0 /\ ~output.isDisclosed)

\* the categories in their fixed order, each with its keywords
jobTypeOrder ==
  << [type |-> "part-time", keywords |-> {<<"p", "a", "r", "t", "-", "t", "i", "m", "e">>, <<"p", "a", "r", "t", " ", "t", "i", "m", "e">>}],
     [type |-> "contract", keywords |-> {<<"c", "o", "n", "t", "r", "a", "c", "t">>}],
     [type |-> "temporary", keywords |-> {<<"t", "e", "m", "p", "o", "r", "a", "r", "y">>, <<"t", "e", "m", "p">>}],
     [type |-> "internship", keywords |-> {<<"i", "n", "t", "e", "r", "n">>, <<"g", "r", "a", "d", "u", "a", "t", "e">>}],
     [type |-> "remote", keywords |-> {<<"r", "e", "m", "o", "t", "e">>, <<"w", "o", "r", "k", " ", "f", "r", "o", "m", " ", "h", "o", "m", "e">>}],
     [type |-> "hybrid", keywords |-> {<<"h", "y", "b", "r", "i", "d">>}] >>

\* the categories that have a keyword in the lower-cased title and
\* description of the record, written one after the other
categoriesIn(record) ==
  {k \in DOMAIN jobTypeOrder :
     \E word \in jobTypeOrder[k].keywords :
       includes(toLowerCase(record.title \o <<" ">> \o record.description),
                word)}

\* C15: detectJobType returns the first category, in the order part-time,
\* contract, temporary, internship, remote, hybrid, that has a keyword in
\* the title or the description, and full-time when none has.
C15_FirstCategoryWins ==
  fn = "detectJobType" =>
    LET found == categoriesIn(input)
    IN output = IF found = {} THEN "full-time"
                ELSE jobTypeOrder[CHOOSE k \in found : \A j \in found : k <= j].type

\* a title with a remote and a contract keyword is classified as contract
C15_Witness ==
  /\ fn = "detectJobType"
  /\ input.title = <<"R", "e", "m", "o", "t", "e", " ", "C", "o", "n", "t", "r", "a", "c", "t">>
  /\ input.description = <<>>
  /\ output = "contract"

\* C16: the normalization functions applied twice to the same raw record
\* give the same output both times.
C16_NormalizerDeterministic ==
  (fn = "normalize" /\ Len(output) = 2) =>
    output[1].record = output[2].record

\* C17: within a run, the extraction of a source other than the first
\* starts only when the delay after the attempt on the source before it has
\* been taken, whether that attempt succeeded or raised.
C17_DelayBetweenSources ==
  [][(Len(started) >= 1 /\ Len(started') = Len(started) + 1)
       => runPc = "delay"]_vars

\* a call to the store (lookup, insert, second save) is pending
storeCallPending == runPc \in {"findOne", "save", "recalc"}

\* the records processAndStoreJobs was called with in this run: those its
\* loop is done with, then those still waiting
handedToPersistence ==
  [i \in DOMAIN jobLog |-> jobLog[i].jobData] \o queue

\* C18: in a run no record is looked up or inserted in the store before
\* every source of the list has been attempted; the records handed to
\* persistence are those of the deduplicated merged batch, so no two of
\* them share a case-insensitive (title, company, location) triple; and
\* the run inserts into the store only at its save step.
C18_DedupBeforePersistence ==
  /\ [](storeCallPending => Len(siteOutcome) = Len(sitesToScrape))
  /\ [](handedToPersistence # <<>> =>
          /\ Len(siteOutcome) = Len(sitesToScrape)
          /\ handedToPersistence = firstPerTriple(allJobs, 1)
          /\ \A i, j \in DOMAIN handedToPersistence :
               i < j => ~sameTriple(handedToPersistence[i],
                                    handedToPersistence[j]))
  /\ [][Cardinality(store') > Cardinality(store) => runPc = "save"]_vars

\* three sources listed the same job, written in two ways, and another
\* job; the two different ones were handed to persistence
C18_Witness ==
  /\ runPc = "findOne"
  /\ Len(allJobs) = 3
  /\ sameTriple(allJobs[1], allJobs[2])
  /\ allJobs[1] # allJobs[2]
  /\ jobLog = <<>>
  /\ Len(queue) = 2

\* the jobs of the batch whose iteration ended in the catch at 390-393
raisedJobs == {i \in DOMAIN jobLog : jobLog[i].how = "raised"}

\* the jobs of the batch for which a record was found active or inserted
keptJobs == {i \in DOMAIN jobLog : jobLog[i].how \in {"existing", "inserted"}}

\* C19: a lookup or save that raises for one job ends the iteration of
\* that job only: the result so far is kept, the loop goes on with the next
\* job of the batch (or returns after the last), and the run returns
\* success:true with every job of the batch processed, the failed ones
\* left out of the result and the found or inserted ones in it.
C19_PersistenceErrorIsLocal ==
  /\ [][(/\ Len(jobLog') = Len(jobLog) + 1
          /\ jobLog'[Len(jobLog')].how = "raised")
        => /\ processedJobs' = processedJobs
           /\ queue' = Tail(queue)
           /\ runPc' = IF Tail(queue) = <<>> THEN "auditCompleted"
                                             ELSE "findOne"]_vars
  /\ []((runPc = "returned" /\ raisedJobs # {}) =>
          /\ result.success = TRUE
          /\ queue = <<>>
          /\ Len(result.jobs) <= Len(jobLog) - Cardinality(raisedJobs)
          /\ \A i \in raisedJobs : \A k \in DOMAIN result.jobs :
               ~comesFrom(result.jobs[k], jobLog[i].jobData)
          /\ \A i \in keptJobs : \E k \in DOMAIN result.jobs :
               comesFrom(result.jobs[k], jobLog[i].jobData))

\* the first job of a batch of two raised, the second was inserted and
\* returned
C19_Witness ==
  /\ runPc = "returned"
  /\ Len(jobLog) = 2
  /\ jobLog[1].how = "raised"
  /\ jobLog[2].how = "inserted"
  /\ result.success = TRUE
  /\ Len(result.jobs) = 1

\* C20: when the run returns, every job of the batch handed to
\* processAndStoreJobs either has a record in the result (the active stored
\* record with its natural key, or the record inserted for it) or its
\* iteration raised an error.
C20_ReturnedUnlessError ==
  runPc = "returned" =>
    \A i \in DOMAIN jobLog :
      \/ jobLog[i].how = "raised"
      \/ \E k \in DOMAIN result.jobs :
           /\ comesFrom(result.jobs[k], jobLog[i].jobData)
           /\ result.jobs[k].isActive

\* the score of the canonical formula for a stored document
canonicalScore(doc) ==
  LET sum == (IF doc.title # <<>> /\ doc.company # <<>> THEN 30 ELSE 0)
             + (IF Len(doc.description) > 100 THEN 25 ELSE 0)
             + (IF doc.salaryRange.isDisclosed THEN 20 ELSE 0)
             + (IF Len(doc.skills) >= 1 THEN 15 ELSE 0)
             + (IF Len(doc.categories) >= 1 THEN 10 ELSE 0)
  IN IF sum <= 100 THEN sum ELSE 100

\* C21: the qualityScore stored on a job a run newly persisted is the score
\* of the canonical formula for the job's title, company, description,
\* salaryRange, skills and categories.
C21_StoredScoreIsCanonical ==
  fn = "persistNewJob" => output.qualityScore = canonicalScore(output)

\* the cards of a page that are in the records, in page order: a card is
\* in them when some record has its title and its company
RECURSIVE extractedIn(_, _)
extractedIn(cards, records) ==
  IF cards = <<>> \/ records = <<>> THEN <<>>
  ELSE IF /\ Head(cards).title = Head(records).title
          /\ Head(cards).company = Head(records).company
          /\ ("link" \in DOMAIN Head(cards) => Head(cards).link # "invalid")
    THEN <<Head(cards)>> \o extractedIn(Tail(cards), Tail(records))
    ELSE extractedIn(Tail(cards), records)

\* C22: every record scrapeSite returns has a non-empty title and a
\* non-empty company; a card without a title or a company, or whose parsing
\* raises, is dropped alone: the records are the remaining cards of the
\* page in document order, up to the share of the limit.
C22_BadCardDroppedAlone ==
  fn = "scrapeSite" =>
    LET share == siteLimit(input.limit)
        rest == cardsWithTitleAndCompany(input.cards)
    IN /\ \A i \in DOMAIN output :
            output[i].title # <<>> /\ output[i].company # <<>>
       /\ Len(output) = IF Len(rest) > share THEN share ELSE Len(rest)
       /\ Len(extractedIn(input.cards, output)) = Len(output)
       /\ \A i \in DOMAIN output : /\ output[i].title = rest[i].title
                                     /\ output[i].company = rest[i].company

\* a page whose first card raises and whose second has no company, with a
\* complete third card, which is extracted
C22_Witness ==
  /\ fn = "scrapeSite"
  /\ Len(input.cards) = 3
  /\ "link" \in DOMAIN input.cards[1]
  /\ input.cards[2].company = <<>>
  /\ input.cards[3].title = <<"D">>
  /\ Len(output) = 1
  /\ output[1].title = <<"D">>

\* C23: every page scrapeSite opened is closed when scrapeSite has returned
\* or raised, also after a timeout of the navigation or of the selector
\* wait: whenever no extraction is in progress, no page of a session is
\* open.
C23_PagesClosedOnExit ==
  ~extractionInProgress => \A b \in DOMAIN openPages : openPages[b] = 0

\* some run of the task has returned a success result; its statistics
\* field is the scrapingStats object of the service
resultWithStatisticsReturned ==
  \E i \in DOMAIN outcomes : outcomes[i] = "ok"

\* C24: the statistics of a returned result are not changed by later runs:
\* once a result has been returned, no step changes the totalJobsScraped,
\* errors and successRate seen through it.
C24_StatisticsOfResultFrozen ==
  [][resultWithStatisticsReturned =>
       /\ scrapingStats'.totalJobsScraped = scrapingStats.totalJobsScraped
       /\ scrapingStats'.errors = scrapingStats.errors
       /\ scrapingStats'.successRate = scrapingStats.successRate]_vars

\* no run is between its call and its return
noRunInProgress == runPc \in {"idle", "returned", "raised"}

\* the sum of jobsFound over the success results returned so far: the jobs
\* of the results the task has taken over, and those of a result that has
\* just been returned
jobsFoundSoFar ==
  csJobs + (IF runPc = "returned" /\ result.success
              THEN result.jobsFound ELSE 0)

\* C25: after any sequence of runs, scrapingStats.totalJobsScraped is the
\* sum of jobsFound over the results returned with success: true; a run
\* that returns success: false or raises has not written scrapingStats; and
\* totalJobsScraped never decreases.
C25_TotalIsSumOfJobsFound ==
  /\ [](noRunInProgress =>
          /\ scrapingStats.totalJobsScraped = jobsFoundSoFar
          /\ (\/ runPc = "raised"
              \/ runPc = "returned" /\ ~result.success)
             => scrapingStats.lastScrapingRun # Len(runLog))
  /\ [][scrapingStats'.totalJobsScraped >= scrapingStats.totalJobsScraped]_vars

\* the second of two successful runs has returned one job, after a first
\* run that returned one
C25_Witness ==
  /\ runPc = "returned"
  /\ outcomes = <<"ok", "ok">>
  /\ result.jobsFound = 1
  /\ csJobs = 1
  /\ scrapingStats.totalJobsScraped = 2

\* C26: for every result scrapeJobs returns for a limit, jobsFound is the
\* length of jobs and is at most the limit, however many records the
\* sources returned.
C26_JobsFoundWithinLimit ==
  fn = "scrapeJobsResult" =>
    /\ output.jobsFound = Len(output.jobs)
    /\ output.jobsFound <= input.limit

\* the sources returned three different jobs for limit 2, and two jobs are
\* in the result
C26_Witness ==
  /\ fn = "scrapeJobsResult"
  /\ Len(deduplicateJobs(input.allJobs)) = 3
  /\ input.limit = 2
  /\ output.jobsFound = 2

\* C27: deduplicateJobs discards a record only when an earlier record of
\* the batch has the same title, company and location up to letter case: a
\* record that differs from every earlier one in one of the three fields
\* survives, also when the fields contain '-'.
C27_OnlyTrueDuplicatesDiscarded ==
  fn = "deduplicateJobs" =>
    \A i \in DOMAIN input :
      (\A j \in 1..(i - 1) : ~sameTriple(input[j], input[i]))
        => \E k \in DOMAIN output : output[k] = input[i]

\* C28: while a scrapeJobs call on the shared JobScraper still has sources
\* to scrape, the browser session it uses has not been closed or set to
\* null by another call; and when all calls have returned or raised, no
\* launched browser is open.
C28_OverlappingCallsKeepSession ==
  /\ \A c \in 1..MaxRequests :
       callPc[c] = "source" =>
         scraperBrowser # Null /\ scraperBrowser \in scraperOpen
  /\ (\A c \in 1..MaxRequests : callPc[c] \in {"idle", "returned", "raised"})
       => scraperOpen = {}

\* an initialize() call is between its test and the end of its launch, or
\* a close() call is waiting for its browser to close
initializeOrCloseInProgress ==
  \/ runPc \in {"initialize", "launch"}
  \/ hcPc = "launch"
  \/ closePc = "closing"

\* C29: whenever no initialize() or close() call is in progress,
\* isInitialized is true exactly when browser is not null; close() on a
\* service without a session changes nothing.
C29_InitializedIffBrowser ==
  /\ [](~initializeOrCloseInProgress => (isInitialized <=> browser # Null))
  /\ [][(closeCount' # closeCount /\ browser = Null)
          => UNCHANGED <<sessionVars, closePc, closing>>]_vars

\* C30: after any sequence of runs executed one after another, the store
\* holds at most one record for each natural key (title, company,
\* location): a save never adds a record whose natural key a stored record
\* has.
C30_OneRecordPerNaturalKey ==
  /\ [](\A r1, r2 \in store : sameNaturalKey(r1, r2) => r1 = r2)
  /\ [][(runPc = "save" /\ runPc' = "recalc")
          => ~\E r \in store : sameNaturalKey(r, job)]_vars

\* a later run has scraped a job again whose stored record, inserted by an
\* earlier run with its company name cleaned and since marked as filled,
\* the lookup did not find; the save was rejected and the store still
\* holds the one record
C30_Witness ==
  /\ Len(outcomes) = 1
  /\ jobLog # <<>>
  /\ jobLog[Len(jobLog)].how = "raised"
  /\ findOne(jobLog[Len(jobLog)].jobData) = {}
  /\ \E r \in store :
       /\ ~r.isActive
       /\ sameNaturalKey(r, newJob(enhanceJobData(jobLog[Len(jobLog)].jobData)))
  /\ Cardinality(store) = 1

====
